---- MODULE Spec2Model ----
(***************************************************************************)
(* Local RAG Studio, frontend: the job-tracking client (App.jsx and the    *)
(* api module) against the backend's job orchestrator and knowledge-base   *)
(* manager.  The backend is not part of the sources at hand; its actions   *)
(* follow sections 4.4 and 4.6 of the specification.                        *)
(*                                                                         *)
(* Every `await` of a handler is a point where other handlers run, so a    *)
(* handler is one action per stretch of code between two awaits.  A        *)
(* request in flight is a record that the server answers (reading its      *)
(* state at that moment) and that the client later resolves; responses of  *)
(* different requests may be resolved in any order.                        *)
(***************************************************************************)
EXTENDS Integers, Sequences, FiniteSets, TLC

\* ------------------------------------------------------------------ bounds
MaxSubmits == 2     \* submissions of a form (and so jobs) in one run
MaxFiles == 1       \* files a job processes before it can finish
MaxPolls == 1       \* getJob polls in flight at once
MaxClicks == 2      \* clicks on the buttons of a knowledge-base card
MaxChats == 2       \* runs of handleSendMessage, counted per provider used
MaxConvos == 2      \* conversations the server creates
MaxDeltas == 2      \* delta events of one chat stream
MaxConvOps == 1     \* runs of startNewChat and removeConversation under way
MaxConvSends == 1   \* sends that go along with the sidebar actions
MaxPathLen == 5     \* characters entered in the prompt of the WSL path helper
MaxPieces == 6      \* pieces a response body is put together from
MaxReads == 3       \* reads that return a chunk of one response body

JobIds == 1..MaxSubmits
Slots == 1..MaxSubmits
KbName(i) == "kb" \o ToString(i)
KbNames == {KbName(i) : i \in 1..2}
Providers == {"gemini", "codex"}
ConvIds == 1..MaxConvos
ChatIds == 1..MaxChats

\* ---------------------------------------------------------------- variables
VARIABLES
    jobs,           \* server: job id -> Job record (NoJob when not created)
    serverKbs,      \* server: names of the knowledge bases that exist
    kbStatus,       \* App state kbStatus
    kbProgress,     \* App state kbProgress (NoSnapshot for null)
    kbJobRunning,   \* App state kbJobRunning
    kbJobId,        \* App state kbJobId (0 for null)
    kbs,            \* App state kbs, the names of the listed knowledge bases
    sub,            \* the runs of handleCreateKB: slot -> position and locals
    pollResp,       \* getJob calls of the polling effect that are in flight
    kbListResp,     \* listKBs calls of refreshKBs that are in flight
    es,             \* EventSource of streamJob per job: none, open, closed (by
                    \* streamJob after a terminal snapshot), failed (by onerror)
    attach,         \* server side of the stream per job: no, live, ended, or
                    \* replayed (the subscription came after the terminal state)
    esQueue,        \* snapshots the server has sent and the client not yet got
    delivered,      \* per job, the statuses streamJob has passed to onUpdate
    observed,       \* jobs whose terminal snapshot the KB handlers have handled
    modelStatus,    \* App state modelStatus
    modelProgress,  \* App state modelProgress (NoSnapshot for null)
    addModel,       \* the runs of handleAddModel: slot -> position and locals
    serverModels,   \* server: ids of the registered embedding models
    embeddingModels,\* App state embeddingModels, the ids of the listed models
    modelListResp,  \* listEmbeddingModels calls in flight
    cardOps,        \* the runs of the card buttons' onClick handlers
    kbForm,         \* App state kbForm: source_path, chunk_size, chunk_overlap
    kbRequests,     \* the chunk parameters of the build requests sent so far
    wslInput,       \* the text entered in the prompt of the WSL path helper
    serverConvos,   \* server: the conversations, records of id and provider
    serverMsgs,     \* server: conversation id -> the stored messages
    conversations,  \* App state conversations
    convListResp,   \* listConversations calls in flight
    activeConversations,  \* App state activeConversations (NoConvo for null)
    messagesByProvider,   \* App state messagesByProvider
    chatStatusByProvider, \* App state chatStatusByProvider
    provider,       \* App state provider
    dualMode,       \* App state dualMode
    selectedKBs,    \* App state selectedKBs
    chats,          \* the runs of handleSendMessage, one per provider used
    msgLoads,       \* getMessages calls of the two message effects in flight
    lastLoadedConvo,\* the ref lastLoadedConvo
    convOps,        \* the runs of startNewChat and removeConversation
    reader          \* sendChat's read loop over one response body

serverVars == <<jobs, serverKbs, serverModels>>
kbUiVars == <<kbStatus, kbProgress, kbJobRunning, kbJobId>>
createVars == <<kbStatus, kbProgress, kbJobRunning, kbJobId, sub, pollResp, observed>>
streamVars == <<es, attach, esQueue, delivered>>
modelUiVars == <<modelStatus, modelProgress, addModel>>
listVars == <<kbs, kbListResp, embeddingModels, modelListResp>>
formVars == <<kbForm, kbRequests, wslInput>>
convVars == <<serverConvos, conversations, convListResp, activeConversations,
              provider, dualMode, convOps>>
msgVars == <<serverMsgs, messagesByProvider, chatStatusByProvider, chats,
             msgLoads, lastLoadedConvo>>
chatVars == <<convVars, msgVars, selectedKBs>>
vars == <<jobs, serverKbs, kbStatus, kbProgress, kbJobRunning, kbJobId, kbs,
          sub, pollResp, kbListResp, es, attach, esQueue, delivered, observed,
          modelStatus, modelProgress, addModel, serverModels, embeddingModels,
          modelListResp, cardOps,
          formVars, chatVars, reader>>

\* sendChat's read loop: stream is the whole response body, rest what has not
\* been read yet, buffer the variable buffer, calls the payloads passed to
\* onToken so far, reads the chunks read; cut records that a read has ended
\* in the middle of an event.
NoReader ==
    [pc |-> "none", stream |-> <<>>, rest |-> <<>>, buffer |-> <<>>,
     calls |-> <<>>, reads |-> 0, cut |-> FALSE]

\* ------------------------------------------------------------- job records
\* null in activeConversations
NoConvo == [id |-> 0, provider |-> ""]

\* A run of the per-provider body of handleSendMessage that has not begun.
\* convo, kbNames: what its request carries; text, sources: its closure
\* variables assistantText and assistantSources; use: providersToUse of its
\* send; events: what the server has
\* sent on its stream and sendChat has not yet read; emitted: the deltas the
\* server has sent; got: the deltas passed to onToken.
NewChatRun ==
    [pc |-> "new", provider |-> "", convo |-> 0, kbNames |-> <<>>,
     text |-> <<>>, sources |-> <<>>, hasSources |-> FALSE,
     events |-> <<>>, emitted |-> 0, got |-> <<>>, detail |-> "",
     use |-> {}]

NoJob == [kind |-> "none", name |-> "", status |-> "none", processed |-> 0, error |-> ""]
NoSnapshot == [job |-> 0, status |-> "none", processed |-> 0, error |-> ""]
PendingResp(j) == [job |-> j, status |-> "pending", processed |-> 0, error |-> ""]
ThrownResp(j, msg) == [job |-> j, status |-> "thrown", processed |-> 0, error |-> msg]

\* The error texts a failed job may carry; the empty one is a snapshot whose
\* error field is missing or empty, the case the `||` defaults are written for.
JobErrors == {"", "disk full"}
\* The detail texts of a rejected request; the empty one is a body without detail.
RejectDetails == {"", "KB already exists"}

Terminal(st) == st \in {"finished", "failed"}

\* snapshot(jobId): the job's state by value.
SnapshotOf(j) ==
    [job |-> j, status |-> jobs[j].status, processed |-> jobs[j].processed,
     error |-> jobs[j].error]

IsSnapshot(r) == r.status \in {"queued", "running", "finished", "failed"}

\* ------------------------------------------------- server: job orchestrator
\* A state change of job j is republished to its live subscriber; the stream
\* ends after the terminal snapshot.
Publish(j, rec) ==
    /\ esQueue' = [esQueue EXCEPT ![j] =
            IF attach[j] = "live"
            THEN Append(@, [job |-> j, status |-> rec.status,
                            processed |-> rec.processed, error |-> rec.error])
            ELSE @]
    /\ attach' = [attach EXCEPT ![j] =
            IF @ = "live" /\ Terminal(rec.status) THEN "ended" ELSE @]

\* queued -> running
JobRun(j) ==
    /\ jobs[j].status = "queued"
    /\ LET rec == [jobs[j] EXCEPT !.status = "running"]
       IN /\ jobs' = [jobs EXCEPT ![j] = rec]
          /\ Publish(j, rec)
    /\ UNCHANGED <<reader, formVars, chatVars, serverKbs, serverModels, createVars, es, delivered,
                   modelUiVars, listVars, cardOps>>

\* the worker reports one more processed file
JobProgress(j) ==
    /\ jobs[j].status = "running"
    /\ jobs[j].processed < MaxFiles
    /\ LET rec == [jobs[j] EXCEPT !.processed = @ + 1]
       IN /\ jobs' = [jobs EXCEPT ![j] = rec]
          /\ Publish(j, rec)
    /\ UNCHANGED <<reader, formVars, chatVars, serverKbs, serverModels, createVars, es, delivered,
                   modelUiVars, listVars, cardOps>>

\* running -> finished: the knowledge base, or the model, now exists
JobFinish(j) ==
    /\ jobs[j].status = "running"
    /\ jobs[j].processed = MaxFiles
    /\ LET rec == [jobs[j] EXCEPT !.status = "finished"]
       IN /\ jobs' = [jobs EXCEPT ![j] = rec]
          /\ Publish(j, rec)
    /\ serverKbs' = IF jobs[j].kind = "kb_build"
                    THEN serverKbs \cup {jobs[j].name} ELSE serverKbs
    /\ serverModels' = IF jobs[j].kind = "model_download"
                       THEN serverModels \cup {jobs[j].name} ELSE serverModels
    /\ UNCHANGED <<reader, formVars, chatVars, createVars, es, delivered, modelUiVars, listVars, cardOps>>

\* running -> failed, with the error the worker raised
JobFail(j, e) ==
    /\ jobs[j].status = "running"
    /\ LET rec == [jobs[j] EXCEPT !.status = "failed", !.error = e]
       IN /\ jobs' = [jobs EXCEPT ![j] = rec]
          /\ Publish(j, rec)
    /\ UNCHANGED <<reader, formVars, chatVars, serverKbs, serverModels, createVars, es, delivered,
                   modelUiVars, listVars, cardOps>>

\* subscribe(jobId) reaches the server: the current snapshot is replayed, and
\* the stream is already at its end when that snapshot is terminal.
StreamAttach(j) ==
    /\ es[j] = "open"
    /\ attach[j] = "no"
    /\ esQueue' = [esQueue EXCEPT ![j] = <<SnapshotOf(j)>>]
    /\ attach' = [attach EXCEPT ![j] =
            IF Terminal(jobs[j].status) THEN "replayed" ELSE "live"]
    /\ UNCHANGED <<reader, formVars, chatVars, serverVars, createVars, es, delivered, modelUiVars,
                   listVars, cardOps>>

\* ------------------------------------------------------ client: the lists
\* refreshKBs(): the call of listKBs leaves; its response is applied later.
\* `by` tells the calls of the card handlers apart (the number of the click);
\* the calls of the other handlers carry 0.
RefreshKBsCallOf(by) ==
    kbListResp \cup {[pending |-> TRUE, list |-> {}, by |-> by]}

RefreshKBsCall == RefreshKBsCallOf(0)

\* GET /api/kbs: the server reads its catalog.
ListKBsAnswer(r) ==
    /\ r \in kbListResp
    /\ r.pending
    /\ kbListResp' = (kbListResp \ {r})
            \cup {[r EXCEPT !.pending = FALSE, !.list = serverKbs]}
    /\ UNCHANGED <<reader, formVars, chatVars, serverVars, createVars, streamVars, modelUiVars, kbs,
                   embeddingModels, modelListResp, cardOps>>

SetKbsMerge(list) == kbs \cup list

\* setKbs(data.kbs || [])
SetKbs(list) == list

\* refreshKBs() after its await
RefreshKBsResolve(r) ==
    /\ r \in kbListResp
    /\ ~r.pending
    /\ kbs' = SetKbs(r.list)
    /\ kbListResp' = kbListResp \ {r}
    /\ UNCHANGED <<reader, formVars, chatVars, serverVars, createVars, streamVars, modelUiVars,
                   embeddingModels, modelListResp, cardOps>>

\* refreshEmbeddingModels(): the call of listEmbeddingModels leaves.
RefreshModelsCallOf(by) ==
    modelListResp \cup {[pending |-> TRUE, list |-> {}, by |-> by]}

RefreshModelsCall == RefreshModelsCallOf(0)

\* GET /api/embeddings/models
ListModelsAnswer(r) ==
    /\ r \in modelListResp
    /\ r.pending
    /\ modelListResp' =
            (modelListResp \ {r})
                \cup {[r EXCEPT !.pending = FALSE, !.list = serverModels]}
    /\ UNCHANGED <<reader, formVars, chatVars, serverVars, createVars, streamVars, modelUiVars, kbs,
                   kbListResp, embeddingModels, cardOps>>

\* refreshEmbeddingModels() after its await
RefreshModelsResolve(r) ==
    /\ r \in modelListResp
    /\ ~r.pending
    /\ embeddingModels' = r.list
    /\ modelListResp' = modelListResp \ {r}
    /\ UNCHANGED <<reader, formVars, chatVars, serverVars, createVars, streamVars, modelUiVars, kbs,
                   kbListResp, cardOps>>

\* ------------------------------------------------ client: the status texts
\* `Processed ${snapshot.processed_files || 0} files, ${snapshot.chunks || 0} chunks`;
\* the chunk count is not part of the model.
ProcessedText(n) == "Processed " \o ToString(n) \o " files"

\* snapshot.error || "Ingest failed", in the initial getJob of handleCreateKB
InitialFailureText(snapshot) ==
    IF snapshot.error # "" THEN snapshot.error ELSE "Ingest failed"

\* snapshot.error || "Ingest failed", in the polling effect
PollFailureText(snapshot) ==
    IF snapshot.error # "" THEN snapshot.error ELSE "Ingest failed"

StreamFailureTextNoDefault(data) == data.error

\* data.error || "Ingest failed", in the onUpdate of handleCreateKB
StreamFailureText(data) ==
    IF data.error # "" THEN data.error ELSE "Ingest failed"

\* throw new Error(err.detail || "Failed to start KB job")
StartKBJobError(detail) == IF detail # "" THEN detail ELSE "Failed to start KB job"

\* throw new Error(err.detail || "Upload failed")
UploadError(detail) == IF detail # "" THEN detail ELSE "Upload failed"

\* throw new Error(err.detail || "Failed to fetch job")
GetJobError(detail) == IF detail # "" THEN detail ELSE "Failed to fetch job"

\* what fetch itself throws when the request does not get through
FetchFailed == "Failed to fetch"

\* err.message || "Failed to ingest", the catch of handleCreateKB
CreateCatchText(message) == IF message # "" THEN message ELSE "Failed to ingest"

\* err.message || "Failed to fetch job status", the two catches around getJob
GetJobCatchText(message) ==
    IF message # "" THEN message ELSE "Failed to fetch job status"

\* ------------------------------------------------- client: handleCreateKB
\* useState of kbForm, and the form after a submission that went through:
\* the fields the model follows
InitialKbForm == [source_path |-> <<>>, chunk_size |-> 800, chunk_overlap |-> 100]

\* chunk_size and chunk_overlap as a build request carries them
ChunkParams(form) == [chunk_size |-> form.chunk_size, chunk_overlap |-> form.chunk_overlap]

NewSub ==
    [pc |-> "new", name |-> "", job |-> 0, resp |-> NoSnapshot,
     params |-> ChunkParams(InitialKbForm)]

\* InvalidConfig: the server rejects bad chunk parameters before any work.
ValidConfig(params) == params.chunk_overlap < params.chunk_size

\* The submit button is disabled while kbJobRunning; slots are used in order.
SubmitEnabled(s) ==
    /\ ~kbJobRunning
    /\ sub[s].pc = "new"
    /\ \A t \in Slots : t < s => sub[t].pc # "new"

\* the id the server gives the next job
NewJobId == CHOOSE j \in JobIds : jobs[j] = NoJob /\ \A k \in JobIds : k < j => jobs[k] # NoJob

\* handleCreateKB with neither files nor a source path
CreateSubmitEmpty(s) ==
    /\ SubmitEnabled(s)
    /\ kbStatus' = "Provide a source path or select a folder."
    /\ kbProgress' = NoSnapshot
    /\ kbJobRunning' = FALSE
    /\ sub' = [sub EXCEPT ![s].pc = "done"]
    /\ UNCHANGED <<reader, formVars, chatVars, serverVars, kbJobId, pollResp, observed, streamVars,
                   modelUiVars, listVars, cardOps>>

\* handleCreateKB with a folder selected, up to the await of createKBUpload
CreateSubmitUpload(s, n) ==
    /\ SubmitEnabled(s)
    /\ kbStatus' = "Starting..."
    /\ kbProgress' = NoSnapshot
    /\ kbJobRunning' = TRUE
    /\ sub' = [sub EXCEPT ![s].pc = "createKBUpload", ![s].name = n,
                          ![s].params = ChunkParams(kbForm)]
    /\ kbRequests' = kbRequests \cup {ChunkParams(kbForm)}
    /\ UNCHANGED <<reader, kbForm, wslInput, chatVars, serverVars, kbJobId, pollResp, observed, streamVars,
                   modelUiVars, listVars, cardOps>>

\* handleCreateKB with a source path, up to the await of startKBJob
CreateSubmitPath(s, n) ==
    /\ SubmitEnabled(s)
    /\ kbStatus' = "Starting..."
    /\ kbProgress' = NoSnapshot
    /\ kbJobRunning' = TRUE
    /\ sub' = [sub EXCEPT ![s].pc = "startKBJob", ![s].name = n,
                          ![s].params = ChunkParams(kbForm)]
    /\ kbRequests' = kbRequests \cup {ChunkParams(kbForm)}
    /\ UNCHANGED <<reader, kbForm, wslInput, chatVars, serverVars, kbJobId, pollResp, observed, streamVars,
                   modelUiVars, listVars, cardOps>>

\* createKBUpload returns: the server has built the knowledge base inside the
\* request, and the handler shows the result.
CreateUploadResolve(s) ==
    /\ sub[s].pc = "createKBUpload"
    /\ ValidConfig(sub[s].params)
    /\ serverKbs' = serverKbs \cup {sub[s].name}
    /\ kbStatus' = ProcessedText(MaxFiles)
    /\ kbListResp' = RefreshKBsCall
    /\ kbJobRunning' = FALSE
    /\ sub' = [sub EXCEPT ![s].pc = "done"]
    /\ kbForm' = InitialKbForm
    /\ UNCHANGED <<reader, kbRequests, wslInput, chatVars, jobs, serverModels, kbProgress, kbJobId, pollResp, observed,
                   streamVars, modelUiVars, kbs, embeddingModels, modelListResp,
                   cardOps>>

\* createKBUpload throws (a response that is not OK, or no response): the
\* catch of handleCreateKB
CreateUploadThrow(s, message) ==
    /\ sub[s].pc = "createKBUpload"
    /\ kbStatus' = CreateCatchText(message)
    /\ sub' = [sub EXCEPT ![s].pc = "thrown"]
    /\ UNCHANGED <<reader, formVars, chatVars, serverVars, kbProgress, kbJobRunning, kbJobId, pollResp,
                   observed, streamVars, modelUiVars, listVars, cardOps>>

\* startKBJob returns the id of a job the server has queued; the handler
\* stores it and asks for the job's snapshot.
StartKBJobResolve(s) ==
    /\ sub[s].pc = "startKBJob"
    /\ ValidConfig(sub[s].params)
    /\ \E j \in JobIds : jobs[j] = NoJob
    /\ LET j == NewJobId
       IN /\ jobs' = [jobs EXCEPT ![j] =
                [kind |-> "kb_build", name |-> sub[s].name, status |-> "queued",
                 processed |-> 0, error |-> ""]]
          /\ kbJobId' = j
          /\ sub' = [sub EXCEPT ![s].pc = "getJob", ![s].job = j,
                                ![s].resp = PendingResp(j)]
    /\ UNCHANGED <<reader, formVars, chatVars, serverKbs, serverModels, kbStatus, kbProgress, kbJobRunning,
                   pollResp, observed, streamVars, modelUiVars, listVars, cardOps>>

\* startKBJob throws: the catch of handleCreateKB
StartKBJobThrow(s, message) ==
    /\ sub[s].pc = "startKBJob"
    /\ kbStatus' = CreateCatchText(message)
    /\ sub' = [sub EXCEPT ![s].pc = "thrown"]
    /\ UNCHANGED <<reader, formVars, chatVars, serverVars, kbProgress, kbJobRunning, kbJobId, pollResp,
                   observed, streamVars, modelUiVars, listVars, cardOps>>

\* GET /api/jobs/<id> for the handler's first getJob
InitialGetJobAnswer(s, ok) ==
    /\ sub[s].pc = "getJob"
    /\ sub[s].resp.status = "pending"
    /\ sub' = [sub EXCEPT ![s].resp =
            IF ok THEN SnapshotOf(sub[s].job)
            ELSE ThrownResp(sub[s].job, GetJobError(""))]
    /\ UNCHANGED <<reader, formVars, chatVars, serverVars, kbUiVars, pollResp, observed, streamVars,
                   modelUiVars, listVars, cardOps>>

\* handleCreateKB after its first getJob: a terminal snapshot ends the handler,
\* any other snapshot, or a throw, is followed by streamJob and by the reset of
\* the form.
InitialGetJobResolve(s) ==
    /\ sub[s].pc = "getJob"
    /\ sub[s].resp.status # "pending"
    /\ LET snapshot == sub[s].resp
           j == sub[s].job
           threw == snapshot.status = "thrown"
           returns == ~threw /\ Terminal(snapshot.status)
       IN /\ kbProgress' = IF threw THEN kbProgress ELSE snapshot
          /\ kbStatus' =
                IF threw THEN GetJobCatchText(snapshot.error)
                ELSE IF snapshot.status = "failed" THEN InitialFailureText(snapshot)
                ELSE IF snapshot.status = "finished"
                     THEN ProcessedText(snapshot.processed)
                ELSE kbStatus
          /\ kbJobRunning' = IF returns THEN FALSE ELSE kbJobRunning
          /\ kbListResp' = IF ~threw /\ snapshot.status = "finished"
                           THEN RefreshKBsCall ELSE kbListResp
          /\ observed' = IF returns THEN observed \cup {j} ELSE observed
          /\ es' = IF returns THEN es ELSE [es EXCEPT ![j] = "open"]
          /\ kbForm' = IF returns THEN kbForm ELSE InitialKbForm
    /\ sub' = [sub EXCEPT ![s].pc = "done", ![s].resp = NoSnapshot]
    /\ UNCHANGED <<reader, kbRequests, wslInput, chatVars, serverVars, kbJobId, pollResp, attach, esQueue, delivered,
                   modelUiVars, kbs, embeddingModels, modelListResp, cardOps>>

\* ------------------------------------------- client: the job polling effect
\* The effect holds an interval while kbJobRunning and kbJobId are both set.
PollActive == kbJobRunning /\ kbJobId # 0

\* the interval fires: getJob(kbJobId) leaves
PollTick ==
    /\ PollActive
    /\ Cardinality(pollResp) < MaxPolls
    /\ pollResp' = pollResp \cup {PendingResp(kbJobId)}
    /\ UNCHANGED <<reader, formVars, chatVars, serverVars, kbUiVars, sub, observed, streamVars, modelUiVars,
                   listVars, cardOps>>

\* GET /api/jobs/<id> for a poll
PollAnswer(r, ok) ==
    /\ r \in pollResp
    /\ r.status = "pending"
    /\ pollResp' = (pollResp \ {r}) \cup
            {IF ok THEN SnapshotOf(r.job) ELSE ThrownResp(r.job, GetJobError(""))}
    /\ UNCHANGED <<reader, formVars, chatVars, serverVars, kbUiVars, sub, observed, streamVars, modelUiVars,
                   listVars, cardOps>>

\* the interval's callback after its await; it runs also when the interval
\* has been cleared in the meantime
PollResolve(r) ==
    /\ r \in pollResp
    /\ r.status # "pending"
    /\ pollResp' = pollResp \ {r}
    /\ LET threw == r.status = "thrown"
       IN /\ kbProgress' = IF threw THEN kbProgress ELSE r
          /\ kbStatus' =
                IF threw THEN GetJobCatchText(r.error)
                ELSE IF r.status = "failed" THEN PollFailureText(r)
                ELSE IF r.status = "finished" THEN ProcessedText(r.processed)
                ELSE kbStatus
          /\ kbJobRunning' = IF ~threw /\ Terminal(r.status) THEN FALSE
                             ELSE kbJobRunning
          /\ kbListResp' = IF ~threw /\ r.status = "finished"
                           THEN RefreshKBsCall ELSE kbListResp
          /\ observed' = IF ~threw /\ Terminal(r.status)
                         THEN observed \cup {r.job} ELSE observed
    /\ UNCHANGED <<reader, formVars, chatVars, serverVars, kbJobId, sub, streamVars, modelUiVars, kbs,
                   embeddingModels, modelListResp, cardOps>>

\* ------------------------------------------------------ client: streamJob
StreamClosesOnFinishedOnly(data) == data.status = "finished"

StreamClosesOnFailedOnly(data) == data.status = "failed"

\* if (data.status === "finished" || data.status === "failed") es.close()
StreamCloses(data) == Terminal(data.status)

\* the onUpdate that handleCreateKB passes to streamJob
KbOnUpdate(data) ==
    /\ kbProgress' = data
    /\ kbStatus' =
            IF data.status = "failed" THEN StreamFailureText(data)
            ELSE IF data.status = "finished" THEN ProcessedText(data.processed)
            ELSE kbStatus
    /\ kbJobRunning' = IF Terminal(data.status) THEN FALSE ELSE kbJobRunning
    /\ kbListResp' = IF data.status = "finished" THEN RefreshKBsCall ELSE kbListResp
    /\ observed' = IF Terminal(data.status) THEN observed \cup {data.job} ELSE observed
    /\ UNCHANGED <<reader, formVars, chatVars, modelStatus, modelProgress, modelListResp>>

\* data.error || "Model download failed"
ModelFailureText(data) ==
    IF data.error # "" THEN data.error ELSE "Model download failed"

\* the onUpdate that handleAddModel passes to streamJob
ModelOnUpdate(data) ==
    /\ modelProgress' = data
    /\ modelStatus' =
            IF data.status = "failed" THEN ModelFailureText(data)
            ELSE IF data.status = "finished" THEN "Model added"
            ELSE modelStatus
    /\ modelListResp' = IF data.status = "finished" THEN RefreshModelsCall
                        ELSE modelListResp
    /\ UNCHANGED <<reader, formVars, chatVars, kbProgress, kbStatus, kbJobRunning, kbListResp, observed>>

\* es.onmessage: the next snapshot of the stream is parsed and passed to
\* onUpdate; a terminal one closes the EventSource.  A closed EventSource
\* dispatches nothing more, and the server sees the connection end.
EsMessage(j) ==
    /\ es[j] = "open"
    /\ esQueue[j] # <<>>
    /\ LET data == Head(esQueue[j])
       IN /\ delivered' = [delivered EXCEPT ![j] = Append(@, data.status)]
          /\ es' = [es EXCEPT ![j] = IF StreamCloses(data) THEN "closed" ELSE @]
          /\ esQueue' = [esQueue EXCEPT ![j] =
                IF StreamCloses(data) THEN <<>> ELSE Tail(@)]
          /\ attach' = [attach EXCEPT ![j] =
                IF StreamCloses(data) /\ @ = "live" THEN "ended" ELSE @]
          /\ IF jobs[j].kind = "kb_build" THEN KbOnUpdate(data)
             ELSE ModelOnUpdate(data)
    /\ UNCHANGED <<reader, formVars, chatVars, serverVars, kbJobId, sub, pollResp, addModel, kbs,
                   embeddingModels, cardOps>>

\* es.onerror: the connection failed, or the server ended the stream; the
\* EventSource is closed and does not reconnect.
EsError(j) ==
    /\ es[j] = "open"
    /\ es' = [es EXCEPT ![j] = "failed"]
    /\ esQueue' = [esQueue EXCEPT ![j] = <<>>]
    /\ attach' = [attach EXCEPT ![j] = IF @ = "live" THEN "ended" ELSE @]
    /\ UNCHANGED <<reader, formVars, chatVars, serverVars, createVars, delivered, modelUiVars, listVars,
                   cardOps>>

\* ------------------------------------------------- client: handleAddModel
\* throw new Error(err.detail || "Failed to start embedding job")
StartEmbeddingJobError(detail) ==
    IF detail # "" THEN detail ELSE "Failed to start embedding job"

\* err.message || "Failed to add model", the catch of handleAddModel
AddModelCatchText(message) == IF message # "" THEN message ELSE "Failed to add model"

ModelName(i) == "model" \o ToString(i)
ModelNames == {ModelName(i) : i \in 1..2}

\* handleAddModel up to the await of startEmbeddingJob; its button is never
\* disabled.
AddModelSubmit(s, n) ==
    /\ addModel[s].pc = "new"
    /\ \A t \in Slots : t < s => addModel[t].pc # "new"
    /\ modelStatus' = "Starting..."
    /\ modelProgress' = NoSnapshot
    /\ addModel' = [addModel EXCEPT ![s].pc = "startEmbeddingJob", ![s].name = n]
    /\ UNCHANGED <<reader, formVars, chatVars, serverVars, createVars, streamVars, listVars, cardOps>>

\* startEmbeddingJob returns the id of a job the server has queued; the
\* handler subscribes to its stream.
StartEmbeddingJobResolve(s) ==
    /\ addModel[s].pc = "startEmbeddingJob"
    /\ \E j \in JobIds : jobs[j] = NoJob
    /\ LET j == NewJobId
       IN /\ jobs' = [jobs EXCEPT ![j] =
                [kind |-> "model_download", name |-> addModel[s].name,
                 status |-> "queued", processed |-> 0, error |-> ""]]
          /\ es' = [es EXCEPT ![j] = "open"]
          /\ addModel' = [addModel EXCEPT ![s].pc = "done", ![s].job = j]
    /\ UNCHANGED <<reader, formVars, chatVars, serverKbs, serverModels, createVars, attach, esQueue,
                   delivered, modelStatus, modelProgress, listVars, cardOps>>

\* startEmbeddingJob throws: the catch of handleAddModel
StartEmbeddingJobThrow(s, message) ==
    /\ addModel[s].pc = "startEmbeddingJob"
    /\ modelStatus' = AddModelCatchText(message)
    /\ addModel' = [addModel EXCEPT ![s].pc = "thrown"]
    /\ UNCHANGED <<reader, formVars, chatVars, serverVars, createVars, streamVars, modelProgress, listVars,
                   cardOps>>

\* --------------------------------------------------------- specifications
\* The Create form as it is first shown; the WSL prompt was never answered.
InitForm ==
    /\ kbForm = InitialKbForm
    /\ kbRequests = {}
    /\ wslInput = <<>>

\* The chat page as it is first shown, or with the Dual checkbox ticked,
\* against a server without conversations.
InitChatIn(dual) ==
    /\ serverConvos = {}
    /\ serverMsgs = [i \in ConvIds |-> <<>>]
    /\ conversations = {}
    /\ convListResp = {}
    /\ activeConversations = [p \in Providers |-> NoConvo]
    /\ messagesByProvider = [p \in Providers |-> <<>>]
    /\ chatStatusByProvider = [p \in Providers |-> ""]
    /\ provider = "gemini"
    /\ dualMode = dual
    /\ selectedKBs = <<>>
    /\ chats = [c \in ChatIds |-> NewChatRun]
    /\ msgLoads = {}
    /\ lastLoadedConvo = [p \in Providers |-> 0]
    /\ convOps = {}

InitChat == InitChatIn(FALSE)

\* The page after its first refreshes, against a server that holds `have`
\* knowledge bases and `models` embedding models and has run no job yet.
InitServerAndPages(have, shown, models) ==
    /\ jobs = [j \in JobIds |-> NoJob]
    /\ serverKbs = have
    /\ serverModels = models
    /\ kbStatus = ""
    /\ kbProgress = NoSnapshot
    /\ kbJobRunning = FALSE
    /\ kbJobId = 0
    /\ kbs = shown
    /\ sub = [s \in Slots |-> NewSub]
    /\ pollResp = {}
    /\ kbListResp = {}
    /\ es = [j \in JobIds |-> "none"]
    /\ attach = [j \in JobIds |-> "no"]
    /\ esQueue = [j \in JobIds |-> <<>>]
    /\ delivered = [j \in JobIds |-> <<>>]
    /\ observed = {}
    /\ modelStatus = ""
    /\ modelProgress = NoSnapshot
    /\ addModel = [s \in Slots |-> NewSub]
    /\ embeddingModels = models
    /\ modelListResp = {}
    /\ cardOps = <<>>

\* no response body is being read
InitPage(have, shown, models) ==
    /\ InitServerAndPages(have, shown, models)
    /\ reader = NoReader

InitWith(have, shown, models) ==
    /\ InitPage(have, shown, models)
    /\ InitForm
    /\ InitChat

Init == InitWith({}, {}, {ModelName(1)})

\* the errors startKBJob and createKBUpload can throw
StartErrors == {StartKBJobError(d) : d \in RejectDetails} \cup {FetchFailed}
UploadErrors == {UploadError(d) : d \in RejectDetails} \cup {FetchFailed}

JobStep ==
    \E j \in JobIds :
        \/ JobRun(j)
        \/ JobProgress(j)
        \/ JobFinish(j)
        \/ \E e \in JobErrors : JobFail(j, e)

StreamStep ==
    \E j \in JobIds :
        \/ StreamAttach(j)
        \/ EsMessage(j)
        \/ EsError(j)

\* `answers` holds TRUE when a getJob call can succeed and FALSE when it can
\* throw.
CreateStep(answers) ==
    \E s \in Slots :
        \/ CreateSubmitEmpty(s)
        \/ CreateSubmitUpload(s, KbName(s))
        \/ CreateSubmitPath(s, KbName(s))
        \/ CreateUploadResolve(s)
        \/ \E m \in UploadErrors : CreateUploadThrow(s, m)
        \/ StartKBJobResolve(s)
        \/ \E m \in StartErrors : StartKBJobThrow(s, m)
        \/ \E ok \in answers : InitialGetJobAnswer(s, ok)
        \/ InitialGetJobResolve(s)

PollStep(answers) ==
    \/ PollTick
    \/ \E r \in pollResp, ok \in answers : PollAnswer(r, ok)
    \/ \E r \in pollResp : PollResolve(r)

KbListStep ==
    \E r \in kbListResp :
        \/ ListKBsAnswer(r)
        \/ RefreshKBsResolve(r)

\* The Create KB page: handleCreateKB, the polling effect and streamJob
\* against the job orchestrator.
Next == JobStep \/ StreamStep \/ CreateStep(BOOLEAN) \/ PollStep(BOOLEAN) \/ KbListStep

Spec == Init /\ [][Next]_vars

\* The same page when every getJob call succeeds.
NextGetJobOk ==
    JobStep \/ StreamStep \/ CreateStep({TRUE}) \/ PollStep({TRUE}) \/ KbListStep

SpecGetJobOk == Init /\ [][NextGetJobOk]_vars

\* The Embedding Models page: handleAddModel and streamJob against the job
\* orchestrator.
AddModelErrors == {StartEmbeddingJobError(d) : d \in {"", "Unknown model"}} \cup {FetchFailed}

AddModelStep ==
    \E s \in Slots :
        \/ \E n \in ModelNames : AddModelSubmit(s, n)
        \/ StartEmbeddingJobResolve(s)
        \/ \E m \in AddModelErrors : StartEmbeddingJobThrow(s, m)

ModelListStep ==
    \E r \in modelListResp :
        \/ ListModelsAnswer(r)
        \/ RefreshModelsResolve(r)

NextModel == JobStep \/ StreamStep \/ AddModelStep \/ ModelListStep

SpecModel == Init /\ [][NextModel]_vars

\* ------------------------------------- client: the knowledge-base cards
\* Every knowledge base uses the first embedding model; no one uses the second.
KbModel(n) == ModelName(1)

\* A click on a card button starts a run of its onClick handler; the prompt
\* or the confirm dialog has been answered so that the request is sent.
NewCardOp(kind, name, to) ==
    [kind |-> kind, name |-> name, to |-> to, pc |-> "sent", ok |-> TRUE,
     detail |-> "", found |-> TRUE]

CanClick == Len(cardOps) < MaxClicks

\* Add docs: ingestKB(kb.name, sourcePath)
ClickAddDocs(n) ==
    /\ CanClick
    /\ n \in kbs
    /\ cardOps' = Append(cardOps, NewCardOp("ingest", n, ""))
    /\ UNCHANGED <<reader, formVars, chatVars, serverVars, createVars, streamVars, modelUiVars, listVars>>

\* Rename: renameKB(kb.name, newName), for a new name that is not empty and
\* differs from kb.name
ClickRename(n, to) ==
    /\ CanClick
    /\ n \in kbs
    /\ to # n
    /\ cardOps' = Append(cardOps, NewCardOp("rename", n, to))
    /\ UNCHANGED <<reader, formVars, chatVars, serverVars, createVars, streamVars, modelUiVars, listVars>>

\* Rebuild: rebuildKB(kb.name, sourcePath)
ClickRebuild(n) ==
    /\ CanClick
    /\ n \in kbs
    /\ cardOps' = Append(cardOps, NewCardOp("rebuild", n, ""))
    /\ UNCHANGED <<reader, formVars, chatVars, serverVars, createVars, streamVars, modelUiVars, listVars>>

\* Delete: deleteKB(kb.name)
ClickDelete(n) ==
    /\ CanClick
    /\ n \in kbs
    /\ cardOps' = Append(cardOps, NewCardOp("delete", n, ""))
    /\ UNCHANGED <<reader, formVars, chatVars, serverVars, createVars, streamVars, modelUiVars, listVars>>

\* Delete on a model card: deleteEmbeddingModel(model.model_id)
ClickDeleteModel(m) ==
    /\ CanClick
    /\ m \in embeddingModels
    /\ cardOps' = Append(cardOps, NewCardOp("deleteModel", m, ""))
    /\ UNCHANGED <<reader, formVars, chatVars, serverVars, createVars, streamVars, modelUiVars, listVars>>

\* The server's answer to the request of a card: the detail of the rejection,
\* or "" when the operation is carried out.  `empty` says that the source
\* path of an ingest or rebuild holds no supported file.
CardRejection(op, empty) ==
    CASE op.kind = "delete" -> ""
      [] op.kind = "rename" ->
            IF op.name \notin serverKbs THEN "NotFound"
            ELSE IF op.to \in serverKbs THEN "Conflict" ELSE ""
      [] op.kind \in {"ingest", "rebuild"} ->
            IF op.name \notin serverKbs THEN "NotFound"
            ELSE IF empty THEN "EmptySource" ELSE ""
      [] op.kind = "deleteModel" ->
            IF \E n \in serverKbs : KbModel(n) = op.name THEN "InUse" ELSE ""

\* The server carries out, or rejects, the request of a card.  Delete on a
\* name that does not exist is a no-op and no error.
CardServe(i, empty) ==
    /\ i \in DOMAIN cardOps
    /\ cardOps[i].pc = "sent"
    /\ LET op == cardOps[i]
           detail == CardRejection(op, empty)
       IN /\ serverKbs' =
                IF detail # "" THEN serverKbs
                ELSE IF op.kind = "delete" THEN serverKbs \ {op.name}
                ELSE IF op.kind = "rename" THEN (serverKbs \ {op.name}) \cup {op.to}
                ELSE serverKbs
          /\ serverModels' =
                IF detail = "" /\ op.kind = "deleteModel"
                THEN serverModels \ {op.name} ELSE serverModels
          /\ cardOps' = [cardOps EXCEPT ![i].pc = "answered",
                                        ![i].ok = (detail = ""),
                                        ![i].detail = detail,
                                        ![i].found = (op.name \in serverKbs \cup serverModels)]
    /\ UNCHANGED <<reader, formVars, chatVars, jobs, createVars, streamVars, modelUiVars, listVars>>

\* ingestKB, rebuildKB and renameKB return res.json() and deleteKB and
\* deleteEmbeddingModel return nothing, whatever the status of the response:
\* none of them throws on a response that is not OK.
CardCallThrows(op) == FALSE

\* The onClick handler after its await: the result is dropped and the list is
\* refreshed.
CardResolve(i) ==
    /\ i \in DOMAIN cardOps
    /\ cardOps[i].pc = "answered"
    /\ cardOps' = [cardOps EXCEPT ![i].pc =
            IF CardCallThrows(cardOps[i]) THEN "thrown" ELSE "done"]
    /\ kbListResp' =
            IF ~CardCallThrows(cardOps[i]) /\ cardOps[i].kind # "deleteModel"
            THEN RefreshKBsCallOf(i) ELSE kbListResp
    /\ modelListResp' =
            IF ~CardCallThrows(cardOps[i]) /\ cardOps[i].kind = "deleteModel"
            THEN RefreshModelsCallOf(i) ELSE modelListResp
    /\ UNCHANGED <<reader, formVars, chatVars, serverVars, createVars, streamVars, modelUiVars, kbs,
                   embeddingModels>>

\* The request does not get through: fetch rejects, the handler ends with an
\* unhandled rejection and refreshes nothing.
CardThrow(i) ==
    /\ i \in DOMAIN cardOps
    /\ cardOps[i].pc = "sent"
    /\ cardOps' = [cardOps EXCEPT ![i].pc = "thrown", ![i].ok = FALSE,
                                  ![i].detail = FetchFailed]
    /\ UNCHANGED <<reader, formVars, chatVars, serverVars, createVars, streamVars, modelUiVars, listVars>>

CardStep ==
    \/ \E n \in KbNames : ClickAddDocs(n)
    \/ \E n \in KbNames, to \in KbNames : ClickRename(n, to)
    \/ \E n \in KbNames : ClickRebuild(n)
    \/ \E n \in KbNames : ClickDelete(n)
    \/ \E m \in ModelNames : ClickDeleteModel(m)
    \/ \E i \in 1..MaxClicks, empty \in BOOLEAN : CardServe(i, empty)
    \/ \E i \in 1..MaxClicks : CardResolve(i)
    \/ \E i \in 1..MaxClicks : CardThrow(i)

\* The Knowledge Bases and Embedding Models pages: the card buttons against
\* the knowledge-base manager and the embedding registry, from a server that
\* holds two knowledge bases and two embedding models.
InitCards == InitWith(KbNames, KbNames, ModelNames)

NextCards == CardStep \/ KbListStep \/ ModelListStep

SpecCards == InitCards /\ [][NextCards]_vars

\* ------------------------------------------- client: the conversations
\* POST /api/conversations: the store creates a conversation of the provider
\* it is asked for, under the next free id.
\* An id is never given twice: a deleted conversation stays in serverConvos
\* with live = FALSE.
NewConvId == Cardinality(serverConvos) + 1

CanCreateConvo == Cardinality(serverConvos) < MaxConvos

CreatedConvo(p) == [id |-> NewConvId, provider |-> p]

StoredConvo(cv) == [id |-> cv.id, provider |-> cv.provider, live |-> TRUE]

LiveConvos == {[id |-> cv.id, provider |-> cv.provider] : cv \in {x \in serverConvos : x.live}}

\* The effect on activeConversations[p]: null empties the list of p, a
\* conversation sends getMessages(convo.id).
MessagesAfterEffect(p, convo) ==
    IF convo = NoConvo
    THEN [messagesByProvider EXCEPT ![p] = <<>>]
    ELSE messagesByProvider

LoadsAfterEffect(p, convo) ==
    IF convo = NoConvo
    THEN msgLoads
    ELSE msgLoads \cup {[provider |-> p, id |-> convo.id, pending |-> TRUE,
                         incoming |-> <<>>]}

\* refreshConversations(): the call of listConversations leaves.
RefreshConversationsCall ==
    convListResp \cup {[pending |-> TRUE, list |-> {}]}

\* GET /api/conversations
ListConversationsAnswer(r) ==
    /\ r \in convListResp
    /\ r.pending
    /\ convListResp' = (convListResp \ {r})
            \cup {[r EXCEPT !.pending = FALSE, !.list = LiveConvos]}
    /\ UNCHANGED <<reader, serverVars, createVars, streamVars, modelUiVars, listVars,
                   cardOps, formVars, serverConvos, conversations,
                   activeConversations, provider, dualMode, convOps, msgVars,
                   selectedKBs>>

\* refreshConversations() after its await
RefreshConversationsResolve(r) ==
    /\ r \in convListResp
    /\ ~r.pending
    /\ conversations' = r.list
    /\ convListResp' = convListResp \ {r}
    /\ UNCHANGED <<reader, serverVars, createVars, streamVars, modelUiVars, listVars,
                   cardOps, formVars, serverConvos, activeConversations,
                   provider, dualMode, convOps, msgVars, selectedKBs>>

\* the Dual checkbox
ToggleDual ==
    /\ dualMode' = ~dualMode
    /\ UNCHANGED <<reader, serverVars, createVars, streamVars, modelUiVars, listVars,
                   cardOps, formVars, serverConvos, conversations, convListResp,
                   activeConversations, provider, convOps, msgVars, selectedKBs>>

\* the Provider select, disabled in dual mode
SetProvider(p) ==
    /\ ~dualMode
    /\ p # provider
    /\ provider' = p
    /\ UNCHANGED <<reader, serverVars, createVars, streamVars, modelUiVars, listVars,
                   cardOps, formVars, serverConvos, conversations, convListResp,
                   activeConversations, dualMode, convOps, msgVars, selectedKBs>>

\* The group of the sidebar a conversation is listed in:
\* (convo.provider || "gemini")
GroupOf(convo) == IF convo.provider = "" THEN "gemini" ELSE convo.provider

\* A click on a listed conversation: it becomes the active conversation of
\* the group it is listed in.
SelectConversation(convo) ==
    /\ convo \in conversations
    /\ LET p == GroupOf(convo)
       IN /\ activeConversations' = [activeConversations EXCEPT ![p] = convo]
          /\ provider' = p
          /\ msgLoads' = LoadsAfterEffect(p, convo)
    /\ UNCHANGED <<reader, serverVars, createVars, streamVars, modelUiVars, listVars,
                   cardOps, formVars, serverConvos, conversations, convListResp,
                   dualMode, convOps, serverMsgs, messagesByProvider,
                   chatStatusByProvider, chats, lastLoadedConvo, selectedKBs>>

\* New Chat: startNewChat up to its await; in dual mode it asks for one
\* conversation per provider, else for one of the selected provider.
StartNewChat ==
    /\ Cardinality(convOps) < MaxConvOps
    /\ convOps' = convOps \cup
            {[kind |-> "new",
              want |-> IF dualMode THEN Providers ELSE {provider},
              made |-> {}, id |-> 0, served |-> FALSE]}
    /\ UNCHANGED <<reader, serverVars, createVars, streamVars, modelUiVars, listVars,
                   cardOps, formVars, serverConvos, conversations, convListResp,
                   activeConversations, provider, dualMode, msgVars, selectedKBs>>

\* The server answers one createConversation of a startNewChat.
NewChatCreate(op, p) ==
    /\ op \in convOps
    /\ op.kind = "new"
    /\ p \in op.want
    /\ \A cv \in op.made : cv.provider # p
    /\ CanCreateConvo
    /\ serverConvos' = serverConvos \cup {StoredConvo(CreatedConvo(p))}
    /\ convOps' = (convOps \ {op})
            \cup {[op EXCEPT !.made = op.made \cup {CreatedConvo(p)}]}
    /\ UNCHANGED <<reader, serverVars, createVars, streamVars, modelUiVars, listVars,
                   cardOps, formVars, conversations, convListResp,
                   activeConversations, provider, dualMode, msgVars, selectedKBs>>

\* The key under which startNewChat stores a conversation it has created:
\* gemini: geminiConvo, codex: codexConvo, or [provider]: convo.
NewChatKeySwapped(want, convo) ==
    IF Cardinality(want) = 2
    THEN (IF convo.provider = "gemini" THEN "codex" ELSE "gemini")
    ELSE convo.provider

NewChatKey(want, convo) == convo.provider

\* startNewChat after its await: the new conversations become active and the
\* list is refreshed.
NewChatResolve(op) ==
    /\ op \in convOps
    /\ op.kind = "new"
    /\ {cv.provider : cv \in op.made} = op.want
    /\ activeConversations' =
            [p \in Providers |->
                IF \E cv \in op.made : NewChatKey(op.want, cv) = p
                THEN CHOOSE cv \in op.made : NewChatKey(op.want, cv) = p
                ELSE activeConversations[p]]
    /\ msgLoads' = msgLoads \cup
            {[provider |-> NewChatKey(op.want, cv), id |-> cv.id,
              pending |-> TRUE, incoming |-> <<>>] : cv \in op.made}
    /\ convOps' = convOps \ {op}
    /\ convListResp' = RefreshConversationsCall
    /\ UNCHANGED <<reader, serverVars, createVars, streamVars, modelUiVars, listVars,
                   cardOps, formVars, serverConvos, conversations, provider,
                   dualMode, serverMsgs, messagesByProvider,
                   chatStatusByProvider, chats, lastLoadedConvo, selectedKBs>>

\* The X of a listed conversation: removeConversation(id) up to its await.
RemoveConversation(convo) ==
    /\ Cardinality(convOps) < MaxConvOps
    /\ convo \in conversations
    /\ convOps' = convOps \cup
            {[kind |-> "remove", want |-> {}, made |-> {}, id |-> convo.id,
              served |-> FALSE]}
    /\ UNCHANGED <<reader, serverVars, createVars, streamVars, modelUiVars, listVars,
                   cardOps, formVars, serverConvos, conversations, convListResp,
                   activeConversations, provider, dualMode, msgVars, selectedKBs>>

\* DELETE /api/conversations/{id}: the store deletes the conversation.
RemoveServe(op) ==
    /\ op \in convOps
    /\ op.kind = "remove"
    /\ ~op.served
    /\ serverConvos' =
            {IF cv.id = op.id THEN [cv EXCEPT !.live = FALSE] ELSE cv :
                cv \in serverConvos}
    /\ convOps' = (convOps \ {op}) \cup {[op EXCEPT !.served = TRUE]}
    /\ UNCHANGED <<reader, serverVars, createVars, streamVars, modelUiVars, listVars,
                   cardOps, formVars, conversations, convListResp,
                   activeConversations, provider, dualMode, msgVars, selectedKBs>>

\* removeConversation after its await: the handler clears every active
\* conversation of that id (their message lists are emptied by the effect)
\* and refreshes the list.
RemoveResolve(op) ==
    /\ op \in convOps
    /\ op.kind = "remove"
    /\ op.served
    /\ activeConversations' =
            [p \in Providers |->
                IF activeConversations[p].id = op.id THEN NoConvo
                ELSE activeConversations[p]]
    /\ messagesByProvider' =
            [p \in Providers |->
                IF activeConversations[p] # NoConvo /\ activeConversations[p].id = op.id
                THEN MessagesAfterEffect(p, NoConvo)[p]
                ELSE messagesByProvider[p]]
    /\ convOps' = convOps \ {op}
    /\ convListResp' = RefreshConversationsCall
    /\ UNCHANGED <<reader, serverVars, createVars, streamVars, modelUiVars, listVars,
                   cardOps, formVars, serverConvos, conversations, provider,
                   dualMode, serverMsgs, chatStatusByProvider, chats, msgLoads,
                   lastLoadedConvo, selectedKBs>>

\* ------------------------------------------------- client: the messages
\* The k-th delta of the stream of chat c; Token(c, 0) stands for its prompt.
Token(c, k) == 10 * c + k

\* A message of a chat window.  `of` is not a field of the program: it names
\* the run of handleSendMessage the message was appended for, and stays with
\* the position when the element at that position is replaced.
UserMessage(c) ==
    [role |-> "user", content |-> <<Token(c, 0)>>, sources |-> <<>>,
     hasSources |-> FALSE, of |-> c]

\* { role: "assistant", content: "" }
Placeholder(c) ==
    [role |-> "assistant", content |-> <<>>, sources |-> <<>>,
     hasSources |-> FALSE, of |-> c]

\* updated[updated.length - 1] = msg: on an empty list the assignment goes to
\* index -1 and adds no element.
ReplaceLast(list, msg) ==
    IF Len(list) = 0 THEN list
    ELSE [list EXCEPT ![Len(list)] = [msg EXCEPT !.of = list[Len(list)].of]]

\* { role: "assistant", content: assistantText, sources: assistantSources }
AssistantMessage(text, sources, hasSources) ==
    [role |-> "assistant", content |-> text, sources |-> sources,
     hasSources |-> hasSources, of |-> 0]

\* GET /api/conversations/{id}/messages: the stored messages, none for a
\* conversation that is gone.
MsgLoadAnswer(r) ==
    /\ r \in msgLoads
    /\ r.pending
    /\ msgLoads' = (msgLoads \ {r}) \cup
            {[r EXCEPT !.pending = FALSE,
                       !.incoming = IF \E cv \in serverConvos : cv.id = r.id /\ cv.live
                                    THEN serverMsgs[r.id] ELSE <<>>]}
    /\ UNCHANGED <<reader, serverVars, createVars, streamVars, modelUiVars, listVars,
                   cardOps, formVars, convVars, serverMsgs, messagesByProvider,
                   chatStatusByProvider, chats, lastLoadedConvo, selectedKBs>>

\* The then of getMessages in the effect of provider p: the list is replaced
\* unless this conversation was loaded before and the list shown is longer.
MsgLoadResolve(r) ==
    /\ r \in msgLoads
    /\ ~r.pending
    /\ LET p == r.provider
           keep == /\ lastLoadedConvo[p] = r.id
                   /\ Len(messagesByProvider[p]) > Len(r.incoming)
       IN /\ messagesByProvider' =
                IF keep THEN messagesByProvider
                ELSE [messagesByProvider EXCEPT ![p] = r.incoming]
          /\ lastLoadedConvo' =
                IF keep THEN lastLoadedConvo
                ELSE [lastLoadedConvo EXCEPT ![p] = r.id]
    /\ msgLoads' = msgLoads \ {r}
    /\ UNCHANGED <<reader, serverVars, createVars, streamVars, modelUiVars, listVars,
                   cardOps, formVars, convVars, serverMsgs,
                   chatStatusByProvider, chats, selectedKBs>>

\* ------------------------------------------- client: handleSendMessage
\* providersToUse
ProvidersToUse(override) ==
    IF override # "" THEN {override}
    ELSE IF dualMode THEN Providers ELSE {provider}

FreeChats == {c \in ChatIds : chats[c].pc = "new"}

\* The run that serves provider p of a send: the free runs are taken in
\* order, gemini before codex.
ChatOf(p, use) ==
    LET first == CHOOSE c \in FreeChats : \A d \in FreeChats : c <= d
    IN IF Cardinality(use) = 2 /\ p = "codex"
       THEN CHOOSE c \in FreeChats \ {first} : \A d \in FreeChats \ {first} : c <= d
       ELSE first

\* kbNames: selectedKBs
RequestKbNames == selectedKBs

SendAllowedOnlyGrounded(blank) == ~blank /\ selectedKBs # <<>>

\* if (!prompt) return
SendAllowed(blank) == ~blank

\* handleSendMessage up to the first await that yields to other events.  For
\* each provider used the status becomes "Thinking..."; with an active
\* conversation the user message and the placeholder are appended and the
\* chat request leaves, else createConversation is awaited first.
ChatSubmit(override, blank) ==
    /\ override # "" => dualMode
    /\ SendAllowed(blank)
    /\ LET use == ProvidersToUse(override)
       IN /\ Cardinality(FreeChats) >= Cardinality(use)
          /\ chatStatusByProvider' =
                [p \in Providers |->
                    IF p \in use THEN "Thinking..." ELSE chatStatusByProvider[p]]
          /\ chats' =
                [c \in ChatIds |->
                    IF \E p \in use : ChatOf(p, use) = c
                    THEN LET p == CHOOSE q \in use : ChatOf(q, use) = c
                         IN [NewChatRun EXCEPT
                                !.pc = IF activeConversations[p] = NoConvo
                                       THEN "ensure" ELSE "sent",
                                !.provider = p,
                                !.use = use,
                                !.convo = activeConversations[p].id,
                                !.kbNames = RequestKbNames]
                    ELSE chats[c]]
          /\ messagesByProvider' =
                [p \in Providers |->
                    IF p \in use /\ activeConversations[p] # NoConvo
                    THEN messagesByProvider[p]
                            \o <<UserMessage(ChatOf(p, use)), Placeholder(ChatOf(p, use))>>
                    ELSE messagesByProvider[p]]
    /\ UNCHANGED <<reader, serverVars, createVars, streamVars, modelUiVars, listVars,
                   cardOps, formVars, convVars, serverMsgs, msgLoads,
                   lastLoadedConvo, selectedKBs>>

\* ensureConversation: the store creates a conversation of the run's provider.
ChatEnsureCreate(c) ==
    /\ chats[c].pc = "ensure"
    /\ CanCreateConvo
    /\ serverConvos' = serverConvos \cup {StoredConvo(CreatedConvo(chats[c].provider))}
    /\ chats' = [chats EXCEPT ![c].pc = "created", ![c].convo = NewConvId]
    /\ UNCHANGED <<reader, serverVars, createVars, streamVars, modelUiVars, listVars,
                   cardOps, formVars, conversations, convListResp,
                   activeConversations, provider, dualMode, convOps, serverMsgs,
                   messagesByProvider, chatStatusByProvider, msgLoads,
                   lastLoadedConvo, selectedKBs>>

\* After the await of ensureConversation: the new conversation becomes the
\* active one of the run's provider, the user message and the placeholder are
\* appended and the chat request leaves.
ChatEnsureResolve(c) ==
    /\ chats[c].pc = "created"
    /\ LET p == chats[c].provider
           convo == [id |-> chats[c].convo, provider |-> p]
       IN /\ activeConversations' = [activeConversations EXCEPT ![p] = convo]
          /\ msgLoads' = LoadsAfterEffect(p, convo)
          /\ messagesByProvider' =
                [messagesByProvider EXCEPT ![p] =
                    @ \o <<UserMessage(c), Placeholder(c)>>]
    /\ chats' = [chats EXCEPT ![c].pc = "sent"]
    /\ UNCHANGED <<reader, serverVars, createVars, streamVars, modelUiVars, listVars,
                   cardOps, formVars, serverConvos, conversations, convListResp,
                   provider, dualMode, convOps, serverMsgs,
                   chatStatusByProvider, lastLoadedConvo, selectedKBs>>

\* POST /api/chat arrives.  A request for a conversation that is gone or that
\* names an unknown knowledge base is rejected before any work; else the user
\* message is stored and the stream begins.
ChatRejection(run) ==
    IF ~\E cv \in serverConvos : cv.id = run.convo /\ cv.live
    THEN "Conversation not found"
    ELSE IF \E i \in 1..Len(run.kbNames) : run.kbNames[i] \notin serverKbs
    THEN "NotFound" ELSE ""

ChatAccept(c) ==
    /\ chats[c].pc = "sent"
    /\ LET detail == ChatRejection(chats[c])
       IN /\ chats' = [chats EXCEPT
                ![c].pc = IF detail = "" THEN "streaming" ELSE "rejected",
                ![c].detail = detail]
          /\ serverMsgs' =
                IF detail = ""
                THEN [serverMsgs EXCEPT ![chats[c].convo] = Append(@, UserMessage(c))]
                ELSE serverMsgs
    /\ UNCHANGED <<reader, serverVars, createVars, streamVars, modelUiVars, listVars,
                   cardOps, formVars, convVars, messagesByProvider,
                   chatStatusByProvider, msgLoads, lastLoadedConvo, selectedKBs>>

\* the server sends a delta event
ChatEmitDelta(c) ==
    /\ chats[c].pc = "streaming"
    /\ chats[c].emitted < MaxDeltas
    /\ chats' = [chats EXCEPT
            ![c].emitted = @ + 1,
            ![c].events = Append(@, [type |-> "delta",
                                     content |-> Token(c, chats[c].emitted + 1),
                                     sources |-> <<>>, message |-> ""])]
    /\ UNCHANGED <<reader, serverVars, createVars, streamVars, modelUiVars, listVars,
                   cardOps, formVars, convVars, serverMsgs, messagesByProvider,
                   chatStatusByProvider, msgLoads, lastLoadedConvo, selectedKBs>>

\* The ranked citation list of a reply, best first: n entries when knowledge
\* bases were named, none otherwise.
RankedSources(c, n) == [i \in 1..n |-> 10 * c + (n + 1 - i)]

SourceCounts == {0, 3, 6}

FullText(c, n) == [k \in 1..n |-> Token(c, k)]

\* The server ends the stream with a done event that carries the citations,
\* and stores the reply.
ChatEmitDone(c, n) ==
    /\ chats[c].pc = "streaming"
    /\ chats[c].emitted >= 1
    /\ chats[c].kbNames = <<>> => n = 0
    /\ chats' = [chats EXCEPT
            ![c].pc = "closing",
            ![c].events = Append(@, [type |-> "done", content |-> 0,
                                     sources |-> RankedSources(c, n),
                                     message |-> ""])]
    /\ serverMsgs' = [serverMsgs EXCEPT ![chats[c].convo] =
            Append(@, [AssistantMessage(FullText(c, chats[c].emitted),
                                        RankedSources(c, n), TRUE)
                       EXCEPT !.of = c])]
    /\ UNCHANGED <<reader, serverVars, createVars, streamVars, modelUiVars, listVars,
                   cardOps, formVars, convVars, messagesByProvider,
                   chatStatusByProvider, msgLoads, lastLoadedConvo, selectedKBs>>

\* the server ends the stream with an error event
ChatEmitError(c, message) ==
    /\ chats[c].pc = "streaming"
    /\ chats' = [chats EXCEPT
            ![c].pc = "closing",
            ![c].events = Append(@, [type |-> "error", content |-> 0,
                                     sources |-> <<>>, message |-> message])]
    /\ UNCHANGED <<reader, serverVars, createVars, streamVars, modelUiVars, listVars,
                   cardOps, formVars, convVars, serverMsgs, messagesByProvider,
                   chatStatusByProvider, msgLoads, lastLoadedConvo, selectedKBs>>

\* data.message || "Streaming error"
StreamErrorText(message) == IF message # "" THEN message ELSE "Streaming error"

AfterTokenBoth(p, text, sources, hasSources) ==
    [q \in Providers |->
        ReplaceLast(messagesByProvider[q], AssistantMessage(text, sources, hasSources))]

\* The list of provider p after onToken has handled a delta or done event of
\* a run whose closure holds text and sources.
AfterToken(p, text, sources, hasSources) ==
    [messagesByProvider EXCEPT ![p] =
        ReplaceLast(@, AssistantMessage(text, sources, hasSources))]

\* onToken: sendChat passes the next event of the stream to the handler.
ChatOnToken(c) ==
    /\ chats[c].events # <<>>
    /\ LET data == Head(chats[c].events)
           p == chats[c].provider
           run == chats[c]
       IN \/ /\ data.type = "delta"
             /\ chats' = [chats EXCEPT ![c].events = Tail(@),
                                       ![c].text = Append(@, data.content),
                                       ![c].got = Append(@, data.content)]
             /\ messagesByProvider' =
                    AfterToken(p, Append(run.text, data.content), run.sources,
                               run.hasSources)
             /\ UNCHANGED <<chatStatusByProvider, convListResp>>
          \/ /\ data.type = "done"
             /\ chats' = [chats EXCEPT ![c].events = Tail(@),
                                       ![c].sources = data.sources,
                                       ![c].hasSources = TRUE]
             /\ chatStatusByProvider' = [chatStatusByProvider EXCEPT ![p] = ""]
             /\ messagesByProvider' = AfterToken(p, run.text, data.sources, TRUE)
             /\ convListResp' = RefreshConversationsCall
          \/ /\ data.type = "error"
             /\ chats' = [chats EXCEPT ![c].events = Tail(@)]
             /\ chatStatusByProvider' =
                    [chatStatusByProvider EXCEPT ![p] = StreamErrorText(data.message)]
             /\ UNCHANGED <<messagesByProvider, convListResp>>
    /\ UNCHANGED <<reader, serverVars, createVars, streamVars, modelUiVars, listVars,
                   cardOps, formVars, serverConvos, conversations,
                   activeConversations, provider, dualMode, convOps, serverMsgs,
                   msgLoads, lastLoadedConvo, selectedKBs>>

\* the stream has ended and every event was read: sendChat returns
ChatStreamEnd(c) ==
    /\ chats[c].pc = "closing"
    /\ chats[c].events = <<>>
    /\ chats' = [chats EXCEPT ![c].pc = "finished"]
    /\ UNCHANGED <<reader, serverVars, createVars, streamVars, modelUiVars, listVars,
                   cardOps, formVars, convVars, serverMsgs, messagesByProvider,
                   chatStatusByProvider, msgLoads, lastLoadedConvo, selectedKBs>>

\* throw new Error(err.detail || "Chat failed")
ChatError(detail) == IF detail # "" THEN detail ELSE "Chat failed"

\* The texts `Error: ${message}` as tokens below zero, apart from every delta.
ErrorToken(message) ==
    CASE message = FetchFailed -> 0 - 1
      [] message = "Chat failed" -> 0 - 2
      [] message = "Conversation not found" -> 0 - 3
      [] message = "NotFound" -> 0 - 4
      [] OTHER -> 0 - 9

\* `Error: ${err.message || "Chat failed"}`: the message replaces the text
ErrorMessage(message) ==
    [role |-> "assistant", content |-> <<ErrorToken(message)>>, sources |-> <<>>,
     hasSources |-> FALSE, of |-> 0]

\* sendChat throws, on a response that is not OK or on a failed fetch: the
\* catch of handleSendMessage.
ChatThrow(c) ==
    /\ chats[c].pc \in {"sent", "rejected"}
    /\ LET p == chats[c].provider
           message == IF chats[c].pc = "rejected"
                      THEN ChatError(chats[c].detail) ELSE FetchFailed
       IN /\ chatStatusByProvider' = [chatStatusByProvider EXCEPT ![p] = message]
          /\ messagesByProvider' =
                [messagesByProvider EXCEPT ![p] = ReplaceLast(@, ErrorMessage(message))]
    /\ chats' = [chats EXCEPT ![c].pc = "thrown"]
    /\ UNCHANGED <<reader, serverVars, createVars, streamVars, modelUiVars, listVars,
                   cardOps, formVars, convVars, serverMsgs, msgLoads,
                   lastLoadedConvo, selectedKBs>>

\* a checkbox of the chip row: a listed knowledge base is selected or not
ToggleKB(n) ==
    /\ n \in kbs
    /\ selectedKBs' =
            IF \E i \in 1..Len(selectedKBs) : selectedKBs[i] = n
            THEN SelectSeq(selectedKBs, LAMBDA x : x # n)
            ELSE Append(selectedKBs, n)
    /\ UNCHANGED <<reader, serverVars, createVars, streamVars, modelUiVars, listVars,
                   cardOps, formVars, convVars, msgVars>>

ConvStep ==
    \/ ToggleDual
    \/ \E p \in Providers : SetProvider(p)
    \/ \E convo \in conversations : SelectConversation(convo)
    \/ StartNewChat
    \/ \E op \in convOps, p \in Providers : NewChatCreate(op, p)
    \/ \E op \in convOps : NewChatResolve(op)
    \/ \E convo \in conversations : RemoveConversation(convo)
    \/ \E op \in convOps : RemoveServe(op)
    \/ \E op \in convOps : RemoveResolve(op)

ChatErrors == {"", "provider failed"}

ChatStep ==
    \/ \E override \in Providers \cup {""}, blank \in BOOLEAN : ChatSubmit(override, blank)
    \/ \E c \in ChatIds :
        \/ ChatEnsureCreate(c)
        \/ ChatEnsureResolve(c)
        \/ ChatAccept(c)
        \/ ChatEmitDelta(c)
        \/ \E n \in SourceCounts : ChatEmitDone(c, n)
        \/ \E m \in ChatErrors : ChatEmitError(c, m)
        \/ ChatOnToken(c)
        \/ ChatStreamEnd(c)
        \/ ChatThrow(c)
    \/ \E r \in msgLoads : MsgLoadAnswer(r)
    \/ \E r \in msgLoads : MsgLoadResolve(r)

ConvListStep ==
    \E r \in convListResp :
        \/ ListConversationsAnswer(r)
        \/ RefreshConversationsResolve(r)

\* The chat page with one provider selected, against the conversation store
\* and the chat endpoint.
NextChat == ChatStep \/ ConvListStep

SpecChat == Init /\ [][NextChat]_vars

\* The sidebar: new chat, select and delete, together with the sends up to
\* the point where the chat request is accepted or rejected.  The getMessages
\* calls of the message effects stay unanswered here.
SendsSoFar == Cardinality(ChatIds \ FreeChats)

SendStep ==
    \/ \E override \in Providers \cup {""}, blank \in BOOLEAN :
            SendsSoFar < MaxConvSends /\ ChatSubmit(override, blank)
    \/ \E c \in ChatIds :
        \/ ChatEnsureCreate(c)
        \/ ChatEnsureResolve(c)
        \/ ChatAccept(c)
        \/ ChatThrow(c)

NextConv == ConvStep \/ ConvListStep \/ SendStep

SpecConv == Init /\ [][NextConv]_vars

\* The chat page in dual mode.
InitDual ==
    /\ InitPage({}, {}, {ModelName(1)})
    /\ InitForm
    /\ InitChatIn(TRUE)

SpecDual == InitDual /\ [][NextChat]_vars

\* ------------------------------------------- client: the WSL path helper
\* A text is a sequence of characters.  The characters that can be entered:
\* two letters, the colon, both separators, a quote and a blank.
WslChars == {"C", "u", ":", "\\", "/", "'", " "}

WslInputs == UNION {[1..n -> WslChars] : n \in 0..MaxPathLen}

\* input.trim()
RECURSIVE TrimLeft(_)
TrimLeft(t) == IF t # <<>> /\ Head(t) = " " THEN TrimLeft(Tail(t)) ELSE t

RECURSIVE TrimRight(_)
TrimRight(t) ==
    IF t # <<>> /\ t[Len(t)] = " " THEN TrimRight(SubSeq(t, 1, Len(t) - 1)) ELSE t

Trim(t) == TrimRight(TrimLeft(t))

\* .replace(/^["']|["']$/g, ""): one quote at the start and one at the end
StripQuotes(t) ==
    LET a == IF t # <<>> /\ Head(t) = "'" THEN Tail(t) ELSE t
    IN IF a # <<>> /\ a[Len(a)] = "'" THEN SubSeq(a, 1, Len(a) - 1) ELSE a

\* [A-Za-z]
IsLetter(ch) == ch \in {"C", "u"}

\* toLowerCase()
ToLowerCase(ch) == IF ch = "C" THEN "c" ELSE ch

\* trimmed.match(/^([A-Za-z]):[\\/](.*)$/)
WslMatches(t) ==
    /\ Len(t) >= 3
    /\ IsLetter(t[1])
    /\ t[2] = ":"
    /\ t[3] \in {"\\", "/"}

\* match[2]
WslRest(t) == SubSeq(t, 4, Len(t))

\* .replace(/[\\]+/g, "/"): every run of backslashes becomes one slash
RECURSIVE ReplaceBackslashRuns(_)
ReplaceBackslashRuns(t) ==
    IF t = <<>> THEN <<>>
    ELSE IF Head(t) = "\\"
         THEN IF Len(t) >= 2 /\ t[2] = "\\"
              THEN ReplaceBackslashRuns(Tail(t))
              ELSE <<"/">> \o ReplaceBackslashRuns(Tail(t))
         ELSE <<Head(t)>> \o ReplaceBackslashRuns(Tail(t))

\* `/mnt/${drive}/${rest}`
WslPath(t) ==
    <<"/", "m", "n", "t", "/", ToLowerCase(t[1]), "/">>
        \o ReplaceBackslashRuns(WslRest(t))

RECURSIVE TextOf(_)
TextOf(t) == IF t = <<>> THEN "" ELSE Head(t) \o TextOf(Tail(t))

\* The onClick of the WSL path helper button, with wslInput entered in its
\* prompt.
WslPathHelper ==
    /\ wslInput # <<>>
    /\ kbForm.source_path = <<>>
    /\ kbStatus = ""
    /\ LET trimmed == StripQuotes(Trim(wslInput))
       IN IF ~WslMatches(trimmed)
          THEN /\ kbStatus' = "Invalid Windows path."
               /\ UNCHANGED kbForm
          ELSE /\ kbForm' = [kbForm EXCEPT !.source_path = WslPath(trimmed)]
               /\ kbStatus' = "WSL path: " \o TextOf(WslPath(trimmed))
    /\ UNCHANGED <<reader, serverVars, kbProgress, kbJobRunning, kbJobId, sub, pollResp,
                   observed, streamVars, modelUiVars, listVars, cardOps,
                   kbRequests, wslInput, chatVars>>

\* The Create page with a text entered in the prompt of the helper.
InitWsl ==
    /\ InitPage({}, {}, {ModelName(1)})
    /\ kbForm = InitialKbForm
    /\ kbRequests = {}
    /\ wslInput \in WslInputs
    /\ InitChat

NextWsl == WslPathHelper

SpecWsl == InitWsl /\ [][NextWsl]_vars

\* ------------------------------------------ the chat page with a KB chip
\* The chat page with one provider selected and one knowledge base listed,
\* whose chip can be ticked and unticked between sends.
InitGrounded == InitWith({KbName(1)}, {KbName(1)}, {ModelName(1)})

GroundedStep ==
    \/ \E n \in KbNames : ToggleKB(n)
    \/ \E override \in Providers \cup {""}, blank \in BOOLEAN : ChatSubmit(override, blank)
    \/ \E c \in ChatIds :
        \/ ChatEnsureCreate(c)
        \/ ChatEnsureResolve(c)
        \/ ChatAccept(c)
        \/ ChatEmitDelta(c)
        \/ \E n \in SourceCounts : ChatEmitDone(c, n)
        \/ ChatOnToken(c)
        \/ ChatStreamEnd(c)
        \/ ChatThrow(c)
    \/ \E r \in msgLoads : MsgLoadAnswer(r)
    \/ \E r \in msgLoads : MsgLoadResolve(r)

SpecGrounded == InitGrounded /\ [][GroundedStep]_vars

\* -------------------------------------- the KB chips and the KB cards
\* Rename and Delete on the Knowledge Bases page, the refreshes they cause,
\* and the chips of the chat page, from a server that holds two knowledge
\* bases.
SelectStep ==
    \/ \E n \in KbNames : ToggleKB(n)
    \/ \E n \in KbNames, to \in KbNames : ClickRename(n, to)
    \/ \E n \in KbNames : ClickDelete(n)
    \/ \E i \in 1..MaxClicks, empty \in BOOLEAN : CardServe(i, empty)
    \/ \E i \in 1..MaxClicks : CardResolve(i)
    \/ \E i \in 1..MaxClicks : CardThrow(i)
    \/ KbListStep

SpecSelect == InitCards /\ [][SelectStep]_vars

\* ------------------------------------- the sidebar and the history loads
\* the messages the store holds of conversation i: a question and its reply
History(i) ==
    <<UserMessage(i),
      [AssistantMessage(FullText(i, 1), <<>>, TRUE) EXCEPT !.of = i]>>

\* The chat page opened against a store that holds MaxConvos conversations of
\* one provider, each with its history, all listed in the sidebar and none
\* selected yet.
InitHistory ==
    /\ InitPage({}, {}, {ModelName(1)})
    /\ InitForm
    /\ serverConvos = {StoredConvo([id |-> i, provider |-> "gemini"]) : i \in ConvIds}
    /\ serverMsgs = [i \in ConvIds |-> History(i)]
    /\ conversations = {[id |-> i, provider |-> "gemini"] : i \in ConvIds}
    /\ convListResp = {}
    /\ activeConversations = [p \in Providers |-> NoConvo]
    /\ messagesByProvider = [p \in Providers |-> <<>>]
    /\ chatStatusByProvider = [p \in Providers |-> ""]
    /\ provider = "gemini"
    /\ dualMode = FALSE
    /\ selectedKBs = <<>>
    /\ chats = [c \in ChatIds |-> NewChatRun]
    /\ msgLoads = {}
    /\ lastLoadedConvo = [p \in Providers |-> 0]
    /\ convOps = {}

\* Selecting and deleting listed conversations, and the getMessages calls of
\* the message effects.
HistoryStep ==
    \/ \E convo \in conversations : SelectConversation(convo)
    \/ \E convo \in conversations : RemoveConversation(convo)
    \/ \E op \in convOps : RemoveServe(op)
    \/ \E op \in convOps : RemoveResolve(op)
    \/ \E r \in msgLoads : MsgLoadAnswer(r)
    \/ \E r \in msgLoads : MsgLoadResolve(r)
    \/ ConvListStep

SpecHistory == InitHistory /\ [][HistoryStep]_vars

\* ------------------------------------------- client: sendChat's read loop
\* A response body is a sequence of characters, put together from pieces;
\* "1" is the one character of which JSON texts are made here.
DataPrefix == <<"d", "a", "t", "a", ":">>

BodyPieces == {DataPrefix, <<"1">>, <<"\n", "\n">>, <<"\n">>, <<" ">>}

RECURSIVE BodiesOf(_)
BodiesOf(n) ==
    IF n = 0 THEN {<<>>}
    ELSE LET shorter == BodiesOf(n - 1)
         IN shorter \cup {b \o piece : b \in shorter, piece \in BodyPieces}

Bodies == BodiesOf(MaxPieces)

\* white space, for trim() and \s
IsSpace(ch) == ch \in {" ", "\n"}

\* event.trim()
RECURSIVE TrimSpace(_)
TrimSpace(t) ==
    IF t # <<>> /\ IsSpace(Head(t)) THEN TrimSpace(Tail(t))
    ELSE IF t # <<>> /\ IsSpace(t[Len(t)]) THEN TrimSpace(SubSeq(t, 1, Len(t) - 1))
    ELSE t

\* buffer.split("\n\n"): the parts between the occurrences of a blank line,
\* found from the left
RECURSIVE SplitAt(_, _)
SplitAt(t, from) ==
    IF from >= Len(t) THEN <<t>>
    ELSE IF t[from] = "\n" /\ t[from + 1] = "\n"
    THEN <<SubSeq(t, 1, from - 1)>> \o SplitAt(SubSeq(t, from + 2, Len(t)), 1)
    ELSE SplitAt(t, from + 1)

Split(t) == SplitAt(t, 1)

\* line.startsWith("data:")
StartsWithData(line) ==
    Len(line) >= Len(DataPrefix) /\ SubSeq(line, 1, Len(DataPrefix)) = DataPrefix

RECURSIVE DropSpace(_)
DropSpace(t) == IF t # <<>> /\ IsSpace(Head(t)) THEN DropSpace(Tail(t)) ELSE t

\* line.replace(/^data:\s*/, "")
PayloadOf(line) == DropSpace(SubSeq(line, Len(DataPrefix) + 1, Len(line)))

\* JSON.parse(payload) returns; it throws on any other text
IsJson(payload) == payload # <<>> /\ \A i \in 1..Len(payload) : payload[i] = "1"

\* The for loop over the events of one chunk: an event that does not start
\* with data: or has no payload is skipped, a payload that JSON.parse accepts
\* is passed to onToken, one that it rejects ends the loop with a throw.
RECURSIVE ForEvents(_, _)
ForEvents(events, calls) ==
    IF events = <<>> THEN [calls |-> calls, threw |-> FALSE]
    ELSE LET line == TrimSpace(Head(events))
             payload == PayloadOf(line)
         IN IF ~StartsWithData(line) \/ payload = <<>>
            THEN ForEvents(Tail(events), calls)
            ELSE IF ~IsJson(payload) THEN [calls |-> calls, threw |-> TRUE]
            ELSE ForEvents(Tail(events), Append(calls, payload))

NextBufferEmptied(parts) == <<>>

\* buffer = events.pop() || ""
NextBuffer(parts) == parts[Len(parts)]

\* const reader = res.body.getReader()
NewReader(body) ==
    [pc |-> "reading", stream |-> body, rest |-> body, buffer |-> <<>>,
     calls |-> <<>>, reads |-> 0, cut |-> FALSE]

\* reader.read() returns the next k characters of the body as a chunk.  The
\* last read the bound allows returns all that is left.
ReadChunk(k) ==
    /\ reader.pc = "reading"
    /\ reader.reads < MaxReads
    /\ k \in 1..Len(reader.rest)
    /\ reader.reads = MaxReads - 1 => k = Len(reader.rest)
    /\ LET parts == Split(reader.buffer \o SubSeq(reader.rest, 1, k))
           events == SubSeq(parts, 1, Len(parts) - 1)
           after == ForEvents(events, reader.calls)
       IN reader' = [reader EXCEPT
                !.pc = IF after.threw THEN "thrown" ELSE "reading",
                !.rest = SubSeq(@, k + 1, Len(@)),
                !.buffer = NextBuffer(parts),
                !.calls = after.calls,
                !.reads = @ + 1,
                !.cut = @ \/ TrimSpace(NextBuffer(parts)) # <<>>]
    /\ UNCHANGED <<serverVars, createVars, streamVars, modelUiVars, listVars,
                   cardOps, formVars, chatVars>>

\* reader.read() returns done: the loop ends and sendChat returns
ReadDone ==
    /\ reader.pc = "reading"
    /\ reader.rest = <<>>
    /\ reader' = [reader EXCEPT !.pc = "returned"]
    /\ UNCHANGED <<serverVars, createVars, streamVars, modelUiVars, listVars,
                   cardOps, formVars, chatVars>>

\* sendChat reading one response body, whatever it is, in up to MaxReads
\* chunks of any sizes.
InitReader ==
    /\ InitServerAndPages({}, {}, {ModelName(1)})
    /\ InitForm
    /\ InitChat
    /\ \E body \in Bodies : reader = NewReader(body)

NextReader == (\E k \in 1..(MaxPieces * Len(DataPrefix)) : ReadChunk(k)) \/ ReadDone

SpecReader == InitReader /\ [][NextReader]_vars

\* ------------------------------------ the chat page and streams that end
\* The response body ends with neither a done nor an error event delivered:
\* the server closes the stream early, or its last event is not followed by
\* a blank line and stays in sendChat's buffer.
ChatEmitEnd(c) ==
    /\ chats[c].pc = "streaming"
    /\ chats' = [chats EXCEPT ![c].pc = "closing"]
    /\ UNCHANGED <<reader, serverVars, createVars, streamVars, modelUiVars, listVars,
                   cardOps, formVars, convVars, serverMsgs, messagesByProvider,
                   chatStatusByProvider, msgLoads, lastLoadedConvo, selectedKBs>>

\* The sends of the chat page against a chat endpoint whose stream can end
\* in every way: with done, with error, or with neither.  The getMessages
\* calls of the message effects stay unanswered here.
StreamEndStep ==
    \/ \E override \in Providers \cup {""}, blank \in BOOLEAN : ChatSubmit(override, blank)
    \/ \E c \in ChatIds :
        \/ ChatEnsureCreate(c)
        \/ ChatEnsureResolve(c)
        \/ ChatAccept(c)
        \/ ChatEmitDelta(c)
        \/ \E n \in SourceCounts : ChatEmitDone(c, n)
        \/ \E m \in ChatErrors : ChatEmitError(c, m)
        \/ ChatEmitEnd(c)
        \/ ChatOnToken(c)
        \/ ChatStreamEnd(c)
        \/ ChatThrow(c)

SpecStreamEnd == Init /\ [][StreamEndStep]_vars

\* ------------------------------------------------ client: the Create form
\* what can be entered in the Chunk size and Chunk overlap fields
ChunkValues == {100, 800}

\* onChange of Chunk size
SetChunkSize(v) ==
    /\ v # kbForm.chunk_size
    /\ kbForm' = [kbForm EXCEPT !.chunk_size = v]
    /\ UNCHANGED <<reader, serverVars, createVars, streamVars, modelUiVars, listVars,
                   cardOps, kbRequests, wslInput, chatVars>>

\* onChange of Chunk overlap
SetChunkOverlap(v) ==
    /\ v # kbForm.chunk_overlap
    /\ kbForm' = [kbForm EXCEPT !.chunk_overlap = v]
    /\ UNCHANGED <<reader, serverVars, createVars, streamVars, modelUiVars, listVars,
                   cardOps, kbRequests, wslInput, chatVars>>

FormStep ==
    \/ \E v \in ChunkValues : SetChunkSize(v)
    \/ \E v \in ChunkValues : SetChunkOverlap(v)

\* The Create page with its form fields edited between submissions.
NextForm == FormStep \/ CreateStep({TRUE}) \/ JobStep \/ StreamStep \/ KbListStep

SpecForm == Init /\ [][NextForm]_vars

\* ------------------------------------------------------------------ claims

\* The snapshots that can still reach kbProgress come from the poll and from
\* the stream only: no run of handleCreateKB is at its first getJob.
OnlyPollAndStream == \A s \in Slots : sub[s].pc # "getJob"

\* C1: once kbProgress holds a finished or failed snapshot of a job, no poll
\* response and no stream event replaces it by a queued or running snapshot
\* of that same job.
C1_TerminalIsFinal ==
    [][(OnlyPollAndStream /\ Terminal(kbProgress.status)
            /\ kbProgress'.job = kbProgress.job)
        => Terminal(kbProgress'.status)]_vars

\* C2: once streamJob has passed a finished or failed snapshot to onUpdate,
\* the EventSource is closed and that snapshot stays the last one onUpdate
\* got for the subscription.
C2_StreamEndsAfterTerminal ==
    \A j \in JobIds :
        \A i \in 1..Len(delivered[j]) :
            Terminal(delivered[j][i]) =>
                /\ i = Len(delivered[j])
                /\ es[j] = "closed"
                /\ esQueue[j] = <<>>

\* C2, its case: a stream that delivered a running and then a terminal snapshot.
C2_Witness ==
    \E j \in JobIds :
        /\ Len(delivered[j]) >= 2
        /\ delivered[j][1] = "running"
        /\ Terminal(delivered[j][Len(delivered[j])])
        /\ es[j] = "closed"

\* C3: a snapshot that replaces the displayed one of the same job never
\* shows fewer processed files.
C3_ProgressNeverDecreases ==
    [][(OnlyPollAndStream /\ kbProgress.job # 0 /\ kbProgress'.job = kbProgress.job)
        => kbProgress'.processed >= kbProgress.processed]_vars

\* Nothing is left that could still bring a snapshot of job j to the KB
\* handlers: no interval polls it, no getJob for it is in flight, and its
\* EventSource is not open.
NoWayToObserve(j) ==
    /\ ~(PollActive /\ kbJobId = j)
    /\ \A r \in pollResp : r.job # j
    /\ \A s \in Slots : ~(sub[s].pc = "getJob" /\ sub[s].job = j)
    /\ es[j] # "open"

\* C4: for every KB build job that has reached a terminal state on the
\* server, by the time the UI has stopped following it kbJobRunning is false
\* for it and, when it finished, its finished snapshot has been handled (which
\* is what issues the refresh of the KB list).
C4_TerminalJobIsObserved ==
    \A j \in JobIds :
        (jobs[j].kind = "kb_build" /\ Terminal(jobs[j].status) /\ NoWayToObserve(j))
            => /\ kbJobId = j => ~kbJobRunning
               /\ jobs[j].status = "finished" => j \in observed

\* C6: each step in which a KB handler (the first getJob, the poll, the
\* stream) takes in a failed snapshot sets kbStatus to the snapshot's error,
\* or to "Ingest failed" when that is empty, and kbJobRunning to false.
ObservesFailed ==
    \/ \E s \in Slots : sub[s].resp.status = "failed" /\ InitialGetJobResolve(s)
    \/ \E r \in pollResp : r.status = "failed" /\ PollResolve(r)
    \/ \E j \in JobIds :
        /\ jobs[j].kind = "kb_build"
        /\ es[j] = "open"
        /\ esQueue[j] # <<>>
        /\ Head(esQueue[j]).status = "failed"
        /\ EsMessage(j)

C6_FailedShowsMessage ==
    [][ObservesFailed =>
        /\ kbProgress'.status = "failed"
        /\ kbStatus' # ""
        /\ kbStatus' = (IF kbProgress'.error # "" THEN kbProgress'.error
                        ELSE "Ingest failed")
        /\ ~kbJobRunning']_vars

\* C6, its case: the stream has delivered a failed snapshot without an error
\* text and the default message is shown.
C6_Witness ==
    \E j \in JobIds :
        /\ delivered[j] # <<>>
        /\ delivered[j][Len(delivered[j])] = "failed"
        /\ kbProgress = [job |-> j, status |-> "failed",
                         processed |-> kbProgress.processed, error |-> ""]
        /\ kbStatus = "Ingest failed"
        /\ ~kbJobRunning

\* C8: when startKBJob or createKBUpload throws, the handler shows the error
\* and leaves kbJobRunning false, so that the form can be submitted again.
C8_RejectedStartReturnsToIdle ==
    [][\A s \in Slots :
        (sub[s].pc \in {"startKBJob", "createKBUpload"} /\ sub'[s].pc = "thrown")
            => (kbStatus' \in (StartErrors \cup UploadErrors) /\ ~kbJobRunning')]_vars

C7_BuildsRunInsideAJob ==
    [][\A i \in DOMAIN cardOps :
        (/\ cardOps[i].kind \in {"ingest", "rebuild"}
         /\ cardOps[i].pc = "answered"
         /\ cardOps'[i].pc = "done")
            => \/ kbJobId' # kbJobId
               \/ \E j \in JobIds : es[j] = "none" /\ es'[j] = "open"]_vars

\* C9: when the server rejects Add docs, Rename, Rebuild or Delete of a
\* knowledge base, or Delete of an embedding model, the page shows that the
\* operation failed: the step in which the handler takes the rejection puts
\* the detail of the rejection in a status line.
C9_RejectionIsShown ==
    [][\A i \in DOMAIN cardOps :
        (/\ cardOps[i].pc = "answered"
         /\ ~cardOps[i].ok
         /\ cardOps'[i].pc \in {"done", "thrown"})
            => \/ kbStatus' = cardOps[i].detail
               \/ modelStatus' = cardOps[i].detail]_vars

\* C10: deleteKB is idempotent as seen from the client.  A delete of a name
\* the server does not hold ends without an error; and once every click so
\* far was Delete on one name n, every handler has ended and no list request
\* is under way, the displayed list is the server's list, n is not in it, and
\* the rest of the page is as it was before the first click, whether Delete
\* was clicked once or more often.
OnlyDeletesOf(n) ==
    /\ Len(cardOps) >= 1
    /\ \A i \in DOMAIN cardOps :
        cardOps[i].kind = "delete" /\ cardOps[i].name = n /\ cardOps[i].pc = "done"
    /\ kbListResp = {}

C10_DeleteIsIdempotent ==
    /\ \A i \in DOMAIN cardOps :
        (cardOps[i].kind = "delete" /\ ~cardOps[i].found)
            => cardOps[i].pc \in {"answered", "done"} /\ cardOps[i].ok
    /\ \A n \in KbNames :
        OnlyDeletesOf(n) =>
            /\ kbs = serverKbs
            /\ kbs = KbNames \ {n}
            /\ kbStatus = "" /\ modelStatus = ""
            /\ kbProgress = NoSnapshot /\ modelProgress = NoSnapshot
            /\ ~kbJobRunning /\ kbJobId = 0
            /\ embeddingModels = ModelNames /\ serverModels = ModelNames

C10_Witness ==
    /\ Len(cardOps) = 2
    /\ OnlyDeletesOf(KbName(1))
    /\ \E i \in DOMAIN cardOps : ~cardOps[i].found
    /\ kbs = {KbName(2)}

\* C11: every model download started by handleAddModel that reaches a terminal
\* state ends with modelStatus showing "Model added" or the failure message.
\* Stated for the states in which nothing more can arrive: the job of the
\* latest submission is terminal and its EventSource is closed.
LatestAddModel(s) ==
    /\ addModel[s].pc = "done"
    /\ \A t \in Slots : t > s => addModel[t].pc = "new"

C11_DownloadEndIsShown ==
    \A s \in Slots :
        LET j == addModel[s].job
        IN (/\ LatestAddModel(s)
            /\ Terminal(jobs[j].status)
            /\ es[j] \in {"closed", "failed"})
                => /\ jobs[j].status = "finished" => modelStatus = "Model added"
                   /\ jobs[j].status = "failed" =>
                        modelStatus = ModelFailureText(SnapshotOf(j))

\* C12: dual mode keeps separate histories.  Whenever the message list or the
\* status of a provider q changes, the step belongs to q: a run of
\* handleSendMessage for q has moved, or a getMessages of q's effect has
\* returned.  A send from the shared composer in dual mode starts one run per
\* provider, and every request carries a conversation of its own provider,
\* different from the one the other provider's request carries.
RunMoved(c) == chats'[c] # chats[c]

StepBelongsTo(q) ==
    \/ \E c \in ChatIds : RunMoved(c) /\ chats'[c].provider = q
    \/ \E r \in msgLoads : r.provider = q /\ ~r.pending /\ r \notin msgLoads'

Requested(c) == chats[c].pc \in {"sent", "rejected", "streaming", "closing", "finished", "thrown"}

OwnConversation(c) ==
    /\ \E cv \in serverConvos : cv.id = chats[c].convo /\ cv.provider = chats[c].provider
    /\ \A d \in ChatIds :
        (Requested(d) /\ chats[d].provider # chats[c].provider)
            => chats[d].convo # chats[c].convo

C12_DualKeepsHistoriesApart ==
    [][/\ \A q \in Providers :
            (\/ messagesByProvider'[q] # messagesByProvider[q]
             \/ chatStatusByProvider'[q] # chatStatusByProvider[q])
                => StepBelongsTo(q)
       /\ \A c \in ChatIds :
            (chats[c].pc = "new" /\ chats'[c].use = Providers)
                => \A q \in Providers :
                    Cardinality({d \in ChatIds : /\ chats[d].pc = "new"
                                                 /\ chats'[d].pc # "new"
                                                 /\ chats'[d].provider = q}) = 1
       /\ \A c \in ChatIds : Requested(c)' => OwnConversation(c)']_vars

C12_Witness ==
    /\ dualMode
    /\ chats[1].provider = "gemini" /\ chats[2].provider = "codex"
    /\ chats[1].use = Providers /\ chats[2].use = Providers
    /\ chats[1].pc = "finished" /\ chats[2].pc = "finished"
    /\ chats[1].got = FullText(1, MaxDeltas)
    /\ chats[2].got = FullText(2, MaxDeltas)
    /\ Len(messagesByProvider["gemini"]) = 2
    /\ messagesByProvider["gemini"][2].content = FullText(1, MaxDeltas)
    /\ Len(messagesByProvider["codex"]) = 2
    /\ messagesByProvider["codex"][2].content = FullText(2, MaxDeltas)

\* C13: the provider is fixed per conversation.  The active conversation of
\* provider p is null or a conversation the store created with provider p,
\* and every chat request of a run for p names a conversation created with
\* provider p.
CreatedFor(id, p) == \E cv \in serverConvos : cv.id = id /\ cv.provider = p

C13_ProviderFixedPerConversation ==
    /\ \A p \in Providers :
        \/ activeConversations[p] = NoConvo
        \/ /\ CreatedFor(activeConversations[p].id, p)
           /\ GroupOf(activeConversations[p]) = p
    /\ \A c \in ChatIds : Requested(c) => CreatedFor(chats[c].convo, chats[c].provider)

C13_Witness ==
    /\ activeConversations["gemini"] # NoConvo
    /\ activeConversations["codex"] # NoConvo
    /\ \E cv \in serverConvos : ~cv.live
    /\ \E c \in ChatIds : chats[c].pc = "streaming" /\ chats[c].provider = "codex"

\* C14: for every input of the form <drive letter>:<separator><rest> the WSL
\* path helper sets the Source path to /mnt/<lower-case drive>/<rest>, with
\* every backslash separator replaced by one "/", and introduces no empty
\* path segment: the result holds "//" only where the input holds "//".
RECURSIVE HasEmptySegment(_)
HasEmptySegment(t) ==
    /\ Len(t) >= 2
    /\ \/ (t[1] = "/" /\ t[2] = "/")
       \/ HasEmptySegment(Tail(t))

C14_NoEmptySegment ==
    (WslMatches(wslInput) /\ kbForm.source_path # <<>>)
        => /\ SubSeq(kbForm.source_path, 1, 7)
                = <<"/", "m", "n", "t", "/", ToLowerCase(wslInput[1]), "/">>
           /\ HasEmptySegment(kbForm.source_path) => HasEmptySegment(wslInput)

\* C15: no build is requested with chunk_overlap >= chunk_size: every request
\* handleCreateKB has sent carries chunk_overlap < chunk_size.
C15_RequestsHaveValidChunks ==
    \A r \in kbRequests : r.chunk_overlap < r.chunk_size

\* msg.sources.slice(0, 5): the citations shown under a message
MaxCitations == 5

Displayed(sources) ==
    SubSeq(sources, 1, IF Len(sources) < MaxCitations THEN Len(sources) ELSE MaxCitations)

\* the sources list of the done event of run c
DoneSources(c) ==
    IF chats[c].hasSources THEN chats[c].sources
    ELSE LET i == CHOOSE k \in 1..Len(chats[c].events) : chats[c].events[k].type = "done"
         IN chats[c].events[i].sources

DoneHasSources(c) ==
    \/ chats[c].hasSources
    \/ \E k \in 1..Len(chats[c].events) : chats[c].events[k].type = "done"

\* C16: the citations shown under an assistant message are the first
\* min(5, n) entries of the sources list of the done event of the chat the
\* message was appended for, in the same order.
C16_CitationsAreTheDoneSources ==
    \A p \in Providers : \A i \in 1..Len(messagesByProvider[p]) :
        LET msg == messagesByProvider[p][i]
        IN (msg.role = "assistant" /\ Displayed(msg.sources) # <<>>) =>
                /\ msg.of \in ChatIds
                /\ DoneHasSources(msg.of)
                /\ Displayed(msg.sources) = Displayed(DoneSources(msg.of))

\* run c has read an event of its stream in this step
OnTokenStep(c) == Len(chats'[c].events) < Len(chats[c].events)

\* C20: every delta and done event of a stream changes only the message
\* that was appended for that stream's send.
C20_StreamWritesOwnPlaceholder ==
    [][\A c \in ChatIds :
            OnTokenStep(c) =>
                LET p == chats[c].provider
                IN /\ Len(messagesByProvider'[p]) = Len(messagesByProvider[p])
                   /\ \A i \in 1..Len(messagesByProvider[p]) :
                        messagesByProvider'[p][i] # messagesByProvider[p][i]
                            => messagesByProvider[p][i].of = c]_vars

\* a run of handleSendMessage begins in this step
SubmitStep(c) == chats[c].pc = "new" /\ chats'[c].pc # "new"

\* what the last message of a nonempty list of run c's provider is after the
\* run has read a delta or done event
ReplyShown(c) ==
    LET p == chats[c].provider
        list == messagesByProvider'[p]
        data == Head(chats[c].events)
    IN IF data.type = "error" THEN list = messagesByProvider[p]
       ELSE list # <<>> =>
                /\ list[Len(list)].role = "assistant"
                /\ list[Len(list)].content = chats'[c].got
                /\ list[Len(list)].sources = chats'[c].sources

\* C17: with no knowledge base selected a send with a non-blank prompt is
\* accepted, its request carries selectedKBs as it is, the empty list, and
\* each event of the reply is shown as for any other chat: the last message
\* holds the deltas read so far and the sources of the done event.
C17_UngroundedChatIsValid ==
    /\ []((selectedKBs = <<>> /\ FreeChats # {}) => ENABLED ChatSubmit("", FALSE))
    /\ [][\A c \in ChatIds :
            /\ SubmitStep(c) => chats'[c].kbNames = selectedKBs
            /\ OnTokenStep(c) => ReplyShown(c)]_vars

\* a chat sent with no knowledge base selected has streamed to its end and
\* its reply is the last message shown
C17_Witness ==
    \E c \in ChatIds :
        LET list == messagesByProvider[chats[c].provider]
        IN /\ chats[c].pc = "finished"
           /\ chats[c].kbNames = <<>>
           /\ chats[c].hasSources
           /\ list # <<>>
           /\ list[Len(list)].of = c
           /\ list[Len(list)].role = "assistant"
           /\ list[Len(list)].content = FullText(c, chats[c].emitted)

\* C18: every name in selectedKBs is the name of a knowledge base in the
\* kbs list.
C18_SelectionIsListed ==
    \A i \in 1..Len(selectedKBs) : selectedKBs[i] \in kbs

\* the submissions of the Create form so far, and the job of the latest one
Submitted == {s \in Slots : sub[s].pc # "new"}

LatestJob ==
    IF Submitted = {} THEN 0
    ELSE sub[CHOOSE s \in Submitted : \A t \in Submitted : t <= s].job

\* A submission is in flight from the start of handleCreateKB until the
\* upload has returned, the handler has ended without a job, or a terminal
\* snapshot of its job has been observed.
InFlight(s) ==
    \/ sub[s].pc \in {"createKBUpload", "startKBJob"}
    \/ sub[s].pc \in {"getJob", "done"} /\ sub[s].job # 0 /\ sub[s].job \notin observed

\* a snapshot of job j, or the failure to fetch one, is handled in this step:
\* by handleCreateKB after its first getJob, by the polling effect or by the
\* onUpdate of streamJob
SnapshotStepOf(j) ==
    \/ \E s \in Slots : sub[s].pc = "getJob" /\ sub[s].job = j /\ sub'[s].pc = "done"
    \/ \E r \in pollResp :
            r.status # "pending" /\ r.job = j /\ pollResp' = pollResp \ {r}
    \/ jobs[j].kind = "kb_build" /\ delivered'[j] # delivered[j]

\* C19: while a submission of the Create form is in flight kbJobRunning is
\* true, and a step that handles a snapshot changes kbJobRunning, kbStatus
\* or kbProgress only when the snapshot is of the job of the latest
\* submission.
C19_OneBuildInFlight ==
    /\ [](\A s \in Slots : InFlight(s) => kbJobRunning)
    /\ [][\A j \in JobIds :
            (SnapshotStepOf(j)
                /\ <<kbJobRunning, kbStatus, kbProgress>>' # <<kbJobRunning, kbStatus, kbProgress>>)
            => j = LatestJob]_vars

\* run c has appended its user message and placeholder and its sendChat
\* call has not settled
SendInProgress(c) == chats[c].pc \in {"sent", "streaming", "closing", "rejected"}

\* the then of getMessages for response r runs in this step
LoadResolveStep(r) == ~r.pending /\ msgLoads' = msgLoads \ {r}

\* C21: while a send to conversation c is in progress, a getMessages(c)
\* response with fewer messages than the list shown leaves the list as it is.
C21_LoadKeepsSendInProgress ==
    [][\A r \in msgLoads :
            (/\ LoadResolveStep(r)
             /\ \E c \in ChatIds :
                    /\ SendInProgress(c)
                    /\ chats[c].provider = r.provider
                    /\ chats[c].convo = r.id
             /\ Len(r.incoming) < Len(messagesByProvider[r.provider]))
            => messagesByProvider'[r.provider] = messagesByProvider[r.provider]]_vars

\* C22: the then of a getMessages call for a conversation that is not the
\* active one of its provider leaves the list of that provider as it is.
C22_LateLoadKeepsActiveList ==
    [][\A r \in msgLoads :
            (LoadResolveStep(r) /\ activeConversations[r.provider].id # r.id)
            => messagesByProvider'[r.provider] = messagesByProvider[r.provider]]_vars

\* createConversation has answered the ensureConversation of run c, which
\* will post to the conversation it was given
EnsureAnswered(c) == chats[c].pc = "created"

\* C23: sends for one provider that overlap while it has no active
\* conversation share one createConversation call: the runs of a provider
\* whose ensureConversation has been answered all hold the same conversation.
C23_OneConversationForOverlappingSends ==
    \A c, d \in ChatIds :
        (/\ EnsureAnswered(c) /\ EnsureAnswered(d)
         /\ chats[c].provider = chats[d].provider)
        => chats[c].convo = chats[d].convo

\* the payloads of the blank-line-terminated events of a body whose trimmed
\* text starts with data: and whose payload is not empty, in stream order
RECURSIVE PayloadsOf(_)
PayloadsOf(events) ==
    IF events = <<>> THEN <<>>
    ELSE LET line == TrimSpace(Head(events))
         IN IF StartsWithData(line) /\ PayloadOf(line) # <<>>
            THEN <<PayloadOf(line)>> \o PayloadsOf(Tail(events))
            ELSE PayloadsOf(Tail(events))

TerminatedEvents(body) == SubSeq(Split(body), 1, Len(Split(body)) - 1)

DataPayloads(body) == PayloadsOf(TerminatedEvents(body))

\* the payloads before the first one that is not a JSON text
RECURSIVE UpToBadJson(_)
UpToBadJson(payloads) ==
    IF payloads = <<>> \/ ~IsJson(Head(payloads)) THEN <<>>
    ELSE <<Head(payloads)>> \o UpToBadJson(Tail(payloads))

AllJson(payloads) == \A i \in 1..Len(payloads) : IsJson(payloads[i])

\* sendChat's read loop has ended: it returned or threw
ReaderSettled == reader.pc \in {"returned", "thrown"}

\* C24 as stated: however the body is split into chunks, onToken has been
\* called once, in stream order, with the payload of every blank-line-terminated
\* data: event that has a payload, and with nothing else.
C24_EveryDataEventDelivered ==
    ReaderSettled => reader.calls = DataPayloads(reader.stream)

\* C24, amended: however the body is split into chunks, onToken has been
\* called once, in stream order, with the payload of every blank-line-terminated
\* data: event that has a payload, up to the first payload that is not a JSON
\* text; sendChat throws at that payload and returns if there is none.
C24_DeliveryIndependentOfChunks ==
    ReaderSettled =>
        /\ reader.calls = UpToBadJson(DataPayloads(reader.stream))
        /\ reader.pc = "returned" <=> AllJson(DataPayloads(reader.stream))

\* a body with two data events was read in MaxReads chunks, one of which
\* ended in the middle of an event, and sendChat returned
C24_Witness ==
    /\ reader.pc = "returned"
    /\ reader.reads = MaxReads
    /\ reader.cut
    /\ Len(reader.calls) >= 2

\* the sendChat call of run c has settled: it returned or threw
ChatSettled(c) == chats[c].pc \in {"finished", "thrown"}

\* C25: once every send to provider p has settled, the status of p is no
\* longer "Thinking...".
C25_ThinkingClears ==
    \A p \in Providers :
        (/\ \E c \in ChatIds : chats[c].provider = p
         /\ \A c \in ChatIds : chats[c].provider = p => ChatSettled(c))
        => chatStatusByProvider[p] # "Thinking..."

====
